---- MODULE Spec2Model ----
(***************************************************************************)
(* Model of the annotation interchange engine of xtreme1-sdk:              *)
(*   - exporter/_popular.py  (COCO / VOC / LabelMe / KITTI writers,        *)
(*     geometry helpers)                                                   *)
(*   - exporter/converter.py (Result: archive reconstitution, head, tail)  *)
(*   - exporter/_standard.py (the JSON writer)                             *)
(*   - importer/_parse_data.py (COCO / KITTI / platform-format readers)    *)
(*   - script_ctl.py (the command line entry)                              *)
(*                                                                         *)
(* Python dicts are records; a key a dict may lack is tested with HasKey.  *)
(* Python lists are sequences.  Pixel coordinates are integers counted in  *)
(* half pixels (CoordScale), so that round() has something to round.       *)
(***************************************************************************)
EXTENDS Integers, Sequences, FiniteSets, TLC

VARIABLES
    \* ---- _to_coco: the locals of one pass, and the output folder
    annotation,        \* the records the loop has consumed so far (its input)
    images, annotations, categorys, category_mapping,
    img_id, object_id, category_id,
    coco_pc,           \* "loop" | "raised" | "done"
    coco_file,         \* <<>> (no file) or <<document>>
    \* ---- converter.Result
    zip_file,          \* the archive: its entries [name, content] in order
    dropna,            \* Result.dropna
    self_annotation,   \* Result.annotation
    recon_pc,          \* "new" | "ready" | "raised"
    \* ---- importer parse_coco(src, out)
    coco_src,          \* the source folder: its files [name, content]
    parse_out,         \* the output folder [dirs, image, result]
    parse_error,       \* the returned error message
    parse_pc,          \* "idle" | "staged" | "done" | "raised"
    \* ---- _to_kitti and _to_kitti_like
    kitti_annotation,  \* the records the loop has consumed so far (its input)
    kitti_folder,      \* the export folder: the lines of its label files
    kitti_rects,       \* the rects of the latest record that got lines
    kitti_pc,          \* "loop" | "raised"
    \* ---- importer KittiDataset.parse_result(label_file, cam_ext, result_file)
    label_file,        \* the label file: its lines
    cam_ext,           \* the extrinsic matrix of the camera
    result_file,       \* <<>> (no file) or <<document>>
    label_pc,          \* "idle" | "done" | "raised"
    \* ---- _to_voc
    voc_annotation,    \* the records the loop has consumed so far (its input)
    voc_folder,        \* the export folder: its files [key, value]
    voc_warnings,      \* the tool types warnings.warn was called with
    voc_pc,            \* "loop" | "raised"
    \* ---- _to_labelme
    labelme_annotation, \* the records the loop has consumed so far
    labelme_folder,    \* the export folder: its files [key, value]
    labelme_pc,        \* "loop" | "raised"
    \* ---- script_ctl.main
    ctl_args,          \* the parsed command line
    ctl_outcome,       \* what the conversion or parse called by main does
    ctl_stdout,        \* what main printed
    ctl_response,      \* the response file: <<>> (none) or <<content>>
    ctl_pc,            \* "start" | "exited" | "crashed"
    \* ---- a pure function under test: its argument and its results
    fn_in, fn_out

cocoVars == <<annotation, images, annotations, categorys, category_mapping,
              img_id, object_id, category_id, coco_pc, coco_file>>

reconVars == <<zip_file, dropna, self_annotation, recon_pc>>

parseVars == <<coco_src, parse_out, parse_error, parse_pc>>

kittiVars == <<kitti_annotation, kitti_folder, kitti_rects, kitti_pc>>

labelVars == <<label_file, cam_ext, result_file, label_pc>>

vocVars == <<voc_annotation, voc_folder, voc_warnings, voc_pc>>

labelmeVars == <<labelme_annotation, labelme_folder, labelme_pc>>

ctlVars == <<ctl_args, ctl_outcome, ctl_stdout, ctl_response, ctl_pc>>

fnVars == <<fn_in, fn_out>>

vars == <<cocoVars, reconVars, parseVars, kittiVars, labelVars, vocVars,
          labelmeVars, ctlVars, fnVars>>

\* What the actions of one component leave alone.
notCoco == <<reconVars, parseVars, kittiVars, labelVars, fnVars,
            vocVars, labelmeVars, ctlVars>>

notRecon == <<cocoVars, parseVars, kittiVars, labelVars, fnVars,
            vocVars, labelmeVars, ctlVars>>

notParse == <<cocoVars, reconVars, kittiVars, labelVars, fnVars,
            vocVars, labelmeVars, ctlVars>>

notKitti == <<cocoVars, reconVars, parseVars, labelVars, fnVars,
            vocVars, labelmeVars, ctlVars>>

notLabel == <<cocoVars, reconVars, parseVars, kittiVars, fnVars,
            vocVars, labelmeVars, ctlVars>>

notFn == <<cocoVars, reconVars, parseVars, kittiVars, labelVars,
          vocVars, labelmeVars, ctlVars>>

notVoc == <<cocoVars, reconVars, parseVars, kittiVars, labelVars,
           labelmeVars, ctlVars, fnVars>>

notLabelme == <<cocoVars, reconVars, parseVars, kittiVars, labelVars,
               vocVars, ctlVars, fnVars>>

notCtl == <<cocoVars, reconVars, parseVars, kittiVars, labelVars,
           vocVars, labelmeVars, fnVars>>

----------------------------------------------------------------------------
(* Generic helpers *)

HasKey(d, k) == k \in DOMAIN d

Truthy(s) == s # ""

Abs(n) == IF n < 0 THEN -n ELSE n

RECURSIVE SeqMin(_)
SeqMin(s) == IF Len(s) = 1 THEN s[1]
             ELSE LET m == SeqMin(Tail(s)) IN IF s[1] < m THEN s[1] ELSE m

RECURSIVE SeqMax(_)
SeqMax(s) == IF Len(s) = 1 THEN s[1]
             ELSE LET m == SeqMax(Tail(s)) IN IF s[1] > m THEN s[1] ELSE m

RECURSIVE SeqSum(_)
SeqSum(s) == IF s = <<>> THEN 0 ELSE s[1] + SeqSum(Tail(s))

RECURSIVE Flatten(_)
Flatten(ss) == IF ss = <<>> THEN <<>> ELSE ss[1] \o Flatten(Tail(ss))

Reverse(s) == [i \in 1..Len(s) |-> s[Len(s) + 1 - i]]

SeqOfLen(S, n) == [1..n -> S]

SeqUpTo(S, n) == UNION {SeqOfLen(S, k) : k \in 0..n}

\* Python 3 round(n / d) for d > 0: round half to even.
PyRoundDiv(n, d) ==
    LET q == n \div d
        r == n % d
    IN  IF 2 * r < d THEN q
        ELSE IF 2 * r > d THEN q + 1
        ELSE IF q % 2 = 0 THEN q ELSE q + 1

\* Coordinates are counted in 1/CoordScale pixels.
CoordScale == 2

\* round(v) of a coordinate: the nearest whole pixel.
round(v) == PyRoundDiv(v, CoordScale)

----------------------------------------------------------------------------
(* exporter/_popular.py: _get_label *)

get_label(obj) ==
    IF HasKey(obj, "className")
    THEN IF Truthy(obj.className) THEN obj.className ELSE "null"
    ELSE IF HasKey(obj, "modelClass")
    THEN IF Truthy(obj.modelClass) THEN obj.modelClass ELSE "null"
    ELSE "null"

\* label = _get_label(obj)
GetLabel ==
    /\ fn_out = <<>>
    /\ fn_out' = <<get_label(fn_in)>>
    /\ UNCHANGED fn_in
    /\ UNCHANGED notFn

(* The objects _get_label is applied to: className and modelClass absent,
   empty or one of the names. *)
ClassNames == {"car", "dog", "cat", "bus", "van", "null"}

LabelObjects ==
    {<<>>}
    \cup {[className |-> c] : c \in ClassNames \cup {""}}
    \cup {[modelClass |-> m] : m \in ClassNames \cup {""}}
    \cup {[className |-> c, modelClass |-> m] :
            c \in ClassNames \cup {""}, m \in ClassNames \cup {""}}

(* exporter/_popular.py: polygon_area.  x and y hold coordinates in
   1/CoordScale pixels, so the shoelace sum is in 1/CoordScale^2 pixels^2. *)
shoelace(x, y) ==
    LET n == Len(x)
        j(i) == (i % n) + 1
    IN  SeqSum([i \in 1..n |-> x[i] * y[j(i)] - x[j(i)] * y[i]])

polygon_area_signed(x, y) == shoelace(x, y)

polygon_area_abs(x, y) == Abs(shoelace(x, y))

polygon_area(x, y) ==
    PyRoundDiv(polygon_area_abs(x, y), 2 * CoordScale * CoordScale)

----------------------------------------------------------------------------
(* exporter/_popular.py: _to_coco *)

RectTypes == {"RECTANGLE", "BOUNDING_BOX"}

\* img_url.split('?')[0].split('/')[-1]; a URL is [dir, file, query] and a
\* file name is [stem, ext].
file_name_of(img_url) == img_url.file

\* The first statements of the try block read these keys of the record.
coco_record_raises(anno) ==
    \/ ~HasKey(anno.data, "width")
    \/ ~HasKey(anno.data, "height")
    \/ ~HasKey(anno.data, "imageUrl")

\* Mutant of coco_category: the new category is put in front of the table.
coco_category_front(label, st) ==
    IF label \in DOMAIN st.category_mapping THEN st
    ELSE [st EXCEPT
            !.category_mapping = @ @@ (label :> st.category_id),
            !.categorys = <<[id |-> st.category_id, name |-> label,
                             supercategory |-> "",
                             attributes |-> <<>>]>> \o @,
            !.category_id = @ + 1]

\* if label not in category_mapping.keys(): ... category_id += 1
coco_category(label, st) ==
    IF label \in DOMAIN st.category_mapping THEN st
    ELSE [st EXCEPT
            !.category_mapping = @ @@ (label :> st.category_id),
            !.categorys = Append(@, [id |-> st.category_id, name |-> label,
                                     supercategory |-> "",
                                     attributes |-> <<>>]),
            !.category_id = @ + 1]

\* attributes[cv['name']] = cv['value'] for cv in class_values
coco_attributes(class_values) ==
    LET names == {class_values[i].name : i \in 1..Len(class_values)}
        last(n) == CHOOSE i \in 1..Len(class_values) :
                      /\ class_values[i].name = n
                      /\ \A k \in (i + 1)..Len(class_values) :
                            class_values[k].name # n
    IN  [n \in names |-> class_values[last(n)].value]

\* The annotation dict of a RECTANGLE / BOUNDING_BOX object.
coco_bbox(points) ==
    LET xl == [i \in 1..Len(points) |-> round(points[i].x)]
        yl == [i \in 1..Len(points) |-> round(points[i].y)]
        x0 == SeqMin(xl)
        y0 == SeqMin(yl)
    IN  <<x0, y0, SeqMax(xl) - x0, SeqMax(yl) - y0>>

coco_rectangle(points, oid, iid, cid) ==
    LET bbox == coco_bbox(points)
    IN  [id |-> oid, image_id |-> iid, category_id |-> cid,
         segmentation |-> <<>>, area |-> bbox[3] * bbox[4],
         bbox |-> bbox, iscrowd |-> 0]

coco_polygon(points, oid, iid, cid) ==
    LET px == [i \in 1..Len(points) |-> points[i].x]
        py == [i \in 1..Len(points) |-> points[i].y]
    IN  [id |-> oid, image_id |-> iid, category_id |-> cid,
         segmentation |->
            Flatten([i \in 1..Len(points) |->
                        <<round(points[i].x), round(points[i].y)>>]),
         area |-> polygon_area(px, py),
         bbox |-> <<>>, iscrowd |-> 0]

coco_polyline(points, oid, iid, cid) ==
    [id |-> oid, image_id |-> iid, category_id |-> cid,
     segmentation |-> <<>>, bbox |-> <<>>,
     keypoints |->
        Flatten([i \in 1..Len(points) |->
                    <<round(points[i].x), round(points[i].y), 2>>]),
     num_keypoints |-> Len(points), iscrowd |-> 0]

\* attributes and score are added to new_anno only when present.
coco_extras(new_anno, obj) ==
    LET attributes == coco_attributes(obj.classValues)
        a1 == IF DOMAIN attributes # {}
              THEN new_anno @@ [attributes |-> attributes] ELSE new_anno
    IN  IF HasKey(obj, "modelConfidence")
        THEN a1 @@ [score |-> obj.modelConfidence] ELSE a1

\* Mutant of coco_object: an object whose processing raises is passed over
\* and the pass goes on.
coco_object_lenient(obj, iid, st) ==
    LET label == get_label(obj)
        s1 == coco_category(label, st)
        cid == s1.category_mapping[label]
        emit(new_anno) ==
            IF ~HasKey(obj, "classValues") THEN s1
            ELSE [s1 EXCEPT
                    !.annotations = Append(@, coco_extras(new_anno, obj)),
                    !.object_id = @ + 1]
    IN  IF ~HasKey(obj, "contour") \/ ~HasKey(obj.contour, "points")
           \/ ~HasKey(obj, "type")
        THEN s1
        ELSE LET points == obj.contour.points IN
             IF obj.type \in RectTypes
             THEN IF points = <<>> THEN s1
                  ELSE emit(coco_rectangle(points, s1.object_id, iid, cid))
             ELSE IF obj.type = "POLYGON"
             THEN emit(coco_polygon(points, s1.object_id, iid, cid))
             ELSE IF obj.type = "POLYLINE"
             THEN emit(coco_polyline(points, s1.object_id, iid, cid))
             ELSE s1

\* One iteration of "for obj in objects" on the pass state st; st.raised is
\* set when the body raises.
coco_object(obj, iid, st) ==
    LET label == get_label(obj)
        s1 == coco_category(label, st)
        cid == s1.category_mapping[label]
        emit(new_anno) ==
            IF ~HasKey(obj, "classValues") THEN [s1 EXCEPT !.raised = TRUE]
            ELSE [s1 EXCEPT
                    !.annotations = Append(@, coco_extras(new_anno, obj)),
                    !.object_id = @ + 1]
    IN  IF ~HasKey(obj, "contour") \/ ~HasKey(obj.contour, "points")
           \/ ~HasKey(obj, "type")
        THEN [s1 EXCEPT !.raised = TRUE]
        ELSE LET points == obj.contour.points IN
             IF obj.type \in RectTypes
             THEN IF points = <<>> THEN [s1 EXCEPT !.raised = TRUE]
                  ELSE emit(coco_rectangle(points, s1.object_id, iid, cid))
             ELSE IF obj.type = "POLYGON"
             THEN emit(coco_polygon(points, s1.object_id, iid, cid))
             ELSE IF obj.type = "POLYLINE"
             THEN emit(coco_polyline(points, s1.object_id, iid, cid))
             ELSE s1

RECURSIVE coco_objects(_, _, _, _)
coco_objects(objects, i, iid, st) ==
    IF i > Len(objects) \/ st.raised THEN st
    ELSE coco_objects(objects, i + 1, iid, coco_object(objects[i], iid, st))

\* Mutant of coco_image: image ids count from 1.
coco_image_from_one(anno, iid) ==
    [id |-> iid + 1, license |-> 0,
     file_name |-> file_name_of(anno.data.imageUrl),
     xtreme1_url |-> anno.data.imageUrl,
     width |-> anno.data.width, height |-> anno.data.height]

coco_image(anno, iid) ==
    [id |-> iid, license |-> 0,
     file_name |-> file_name_of(anno.data.imageUrl),
     xtreme1_url |-> anno.data.imageUrl,
     width |-> anno.data.width, height |-> anno.data.height]

\* "if not result: continue": the empty dict {} is <<>>, a result dict is
\* <<[dataId, objects]>>.
coco_skips(anno) == anno.result = <<>>

coco_state ==
    [annotations |-> annotations, categorys |-> categorys,
     category_mapping |-> category_mapping, object_id |-> object_id,
     category_id |-> category_id, raised |-> FALSE]

\* One iteration of "for anno in track(annotation)".
CocoRecord(anno) ==
    /\ coco_pc = "loop"
    /\ UNCHANGED notCoco
    /\ annotation' = Append(annotation, anno)
    /\ IF coco_record_raises(anno)
       THEN /\ coco_pc' = "raised"
            /\ UNCHANGED <<images, annotations, categorys, category_mapping,
                           img_id, object_id, category_id, coco_file>>
       ELSE IF coco_skips(anno)
       THEN UNCHANGED <<images, annotations, categorys, category_mapping,
                        img_id, object_id, category_id, coco_pc, coco_file>>
       ELSE LET st == coco_objects(anno.result[1].objects, 1, img_id,
                                   coco_state)
            IN  /\ annotations' = st.annotations
                /\ categorys' = st.categorys
                /\ category_mapping' = st.category_mapping
                /\ object_id' = st.object_id
                /\ category_id' = st.category_id
                /\ IF st.raised
                   THEN /\ coco_pc' = "raised"
                        /\ UNCHANGED <<images, img_id>>
                   ELSE /\ images' = Append(images, coco_image(anno, img_id))
                        /\ img_id' = img_id + 1
                        /\ UNCHANGED coco_pc
                /\ UNCHANGED coco_file

\* After the loop: json.dump(anno_json) into <dataset_name>_coco.json.
\* Mutant of CocoWrite: the document is dumped after a failed pass as well.
CocoWriteAlways ==
    /\ coco_pc \in {"loop", "raised"}
    /\ coco_file = <<>>
    /\ coco_file' = <<[images |-> images, annotations |-> annotations,
                       categories |-> categorys]>>
    /\ coco_pc' = IF coco_pc = "loop" THEN "done" ELSE coco_pc
    /\ UNCHANGED notCoco
    /\ UNCHANGED <<annotation, images, annotations, categorys,
                   category_mapping, img_id, object_id, category_id>>

CocoWrite ==
    /\ coco_pc = "loop"
    /\ coco_file' = <<[images |-> images, annotations |-> annotations,
                       categories |-> categorys]>>
    /\ coco_pc' = "done"
    /\ UNCHANGED notCoco
    /\ UNCHANGED <<annotation, images, annotations, categorys,
                   category_mapping, img_id, object_id, category_id>>

CocoInit ==
    /\ annotation = <<>>
    /\ images = <<>>
    /\ annotations = <<>>
    /\ categorys = <<>>
    /\ category_mapping = <<>>
    /\ img_id = 0
    /\ object_id = 0
    /\ category_id = 1
    /\ coco_pc = "loop"
    /\ coco_file = <<>>

CocoIdle == CocoInit

(* The records a pass is run on.  Bounds: at most MaxRecords records holding
   at most MaxObjects objects in all. *)
MaxRecords == 2
MaxObjects == 3

CocoPoints == <<[x |-> 2, y |-> 4], [x |-> 8, y |-> 0]>>

CocoDatas ==
    {[dataId |-> 1, width |-> 640, height |-> 480,
      imageUrl |-> [dir |-> <<"s3">>, file |-> [stem |-> "a", ext |-> ".jpg"],
                    query |-> "sig=1"]],
     [dataId |-> 2, width |-> 320, height |-> 240,
      imageUrl |-> [dir |-> <<"s3", "img">>,
                    file |-> [stem |-> "b", ext |-> ".png"], query |-> ""]]}

CocoObjectDomain ==
    {[className |-> c, type |-> t, contour |-> [points |-> CocoPoints],
      classValues |-> <<>>] :
        c \in {"car", "dog"}, t \in {"RECTANGLE", "3D_BOX"}}
    \cup {[className |-> "car", type |-> "RECTANGLE",
           contour |-> [points |-> <<>>], classValues |-> <<>>],
          [modelClass |-> "cat", type |-> "POLYLINE",
           contour |-> [points |-> CocoPoints], modelConfidence |-> 9,
           classValues |-> <<[name |-> "color", value |-> "red"]>>],
          [className |-> "bus", type |-> "3D_BOX",
           contour |-> [size3D |-> [x |-> 4, y |-> 2, z |-> 1]],
           classValues |-> <<>>]}

RECURSIVE CountObjects(_)
CountObjects(annos) ==
    IF annos = <<>> THEN 0
    ELSE (IF annos[1].result = <<>> THEN 0
          ELSE Len(annos[1].result[1].objects)) + CountObjects(Tail(annos))

CocoResults(room) ==
    {<<>>} \cup {<<[dataId |-> 1, objects |-> objs]>> :
                    objs \in SeqUpTo(CocoObjectDomain, room)}

CocoNext ==
    \/ /\ Len(annotation) < MaxRecords
       /\ \E data \in CocoDatas :
            \E result \in CocoResults(MaxObjects - CountObjects(annotation)) :
                CocoRecord([data |-> data, result |-> result])
    \/ CocoWrite


----------------------------------------------------------------------------
(* exporter/converter.py: Result.__reconstitution *)

\* An entry name is its path, split at '/': fl.strip('/').split('/').
is_result(pts) == Len(pts) >= 2 /\ pts[Len(pts) - 1] = "result"

is_data(pts) ==
    /\ ~is_result(pts)
    /\ Len(pts) >= 2
    /\ pts[Len(pts) - 1] = "data"

\* Mutant of merged_result: only the first shard's objects are kept.
merged_result_first(content) == content[1]

\* result_content = json.loads(...)[0]; result_content['objects'] = objs,
\* objs being every shard's objects, extended in shard order.
merged_result(content) ==
    [content[1] EXCEPT
        !.objects = Flatten([k \in 1..Len(content) |-> content[k].objects])]

\* Mutant of id_result_set: a dataId that has a result keeps it.
id_result_setdefault(map, d, result_content) ==
    [x \in (DOMAIN map) \cup {d} |->
        IF x \in DOMAIN map THEN map[x] ELSE result_content]

\* id_result[result_content['dataId']] = result_content
id_result_set(map, d, result_content) ==
    [x \in (DOMAIN map) \cup {d} |->
        IF x = d THEN result_content ELSE map[x]]

\* for result in results: id_result[result_content['dataId']] = ...
\* id_result.raised is set when json.loads(...)[0] raises (an empty list).
RECURSIVE build_id_result(_, _, _)
build_id_result(entries, i, id_result) ==
    IF i > Len(entries) \/ id_result.raised THEN id_result
    ELSE IF ~is_result(entries[i].name)
    THEN build_id_result(entries, i + 1, id_result)
    ELSE IF entries[i].content = <<>>
    THEN [id_result EXCEPT !.raised = TRUE]
    ELSE LET result_content == merged_result(entries[i].content)
             d == result_content.dataId
         IN  build_id_result(entries, i + 1,
                [id_result EXCEPT
                    !.map = id_result_set(@, d, result_content)])

\* id_result.get(data_content['dataId'], {})
id_result_get(map, d) == IF d \in DOMAIN map THEN <<map[d]>> ELSE <<>>

\* Mutant of recon_keep: dropna keeps the unmatched records instead.
recon_keep_unmatched(drop, data_result) == drop => data_result = <<>>

\* if dropna: if data_result: append / else: append
recon_keep(drop, data_result) == drop => data_result # <<>>

RECURSIVE build_annotation(_, _, _, _)
build_annotation(entries, i, map, drop) ==
    IF i > Len(entries) THEN <<>>
    ELSE IF ~is_data(entries[i].name)
    THEN build_annotation(entries, i + 1, map, drop)
    ELSE LET data_content == entries[i].content
             data_result == id_result_get(map, data_content.dataId)
             anno == [data |-> data_content, result |-> data_result]
         IN  (IF recon_keep(drop, data_result) THEN <<anno>> ELSE <<>>)
             \o build_annotation(entries, i + 1, map, drop)

\* Result.__init__(src_zipfile, dropna): self.annotation = reconstitution.
Result_init(drop) ==
    /\ recon_pc = "new"
    /\ dropna' = drop
    /\ LET id_result == build_id_result(zip_file, 1,
                                        [map |-> <<>>, raised |-> FALSE])
       IN  IF id_result.raised
           THEN /\ recon_pc' = "raised"
                /\ UNCHANGED self_annotation
           ELSE /\ recon_pc' = "ready"
                /\ self_annotation' =
                      build_annotation(zip_file, 1, id_result.map, drop)
    /\ UNCHANGED zip_file
    /\ UNCHANGED notRecon

\* The archive the platform exported, one entry at a time.
ZipAdd(entry) ==
    /\ recon_pc = "new"
    /\ zip_file' = Append(zip_file, entry)
    /\ UNCHANGED <<dropna, self_annotation, recon_pc>>
    /\ UNCHANGED notRecon

ReconInit ==
    /\ zip_file = <<>>
    /\ dropna = FALSE
    /\ self_annotation = <<>>
    /\ recon_pc = "new"

ReconIdle == ReconInit

(* Archives: at most MaxFiles entries holding at most MaxShards result
   shards in all.  Entry k is named <dir>/k.json, so names are unique. *)
MaxFiles == 3
MaxShards == 2

ReconDataIds == {1, 2}

ReconObjectLists == {<<>>, <<"a">>, <<"b", "c">>}

ReconShards == [dataId : ReconDataIds, objects : ReconObjectLists]

RECURSIVE CountShards(_)
CountShards(entries) ==
    IF entries = <<>> THEN 0
    ELSE (IF is_result(entries[1].name) THEN Len(entries[1].content) ELSE 0)
         + CountShards(Tail(entries))

ReconEntries(k, room) ==
    {[name |-> <<"ds", "result", k>>, content |-> c] :
        c \in SeqUpTo(ReconShards, room)}
    \cup {[name |-> <<"ds", "data", k>>,
           content |-> [dataId |-> d, name |-> k]] : d \in ReconDataIds}
    \cup {[name |-> <<"data", "old", k>>,
           content |-> [dataId |-> 1, name |-> k]],
          [name |-> <<"result">>, content |-> <<>>]}

ReconNext ==
    \/ /\ Len(zip_file) < MaxFiles
       /\ \E entry \in ReconEntries(Len(zip_file) + 1,
                                    MaxShards - CountShards(zip_file)) :
            ZipAdd(entry)
    \/ \E drop \in BOOLEAN : Result_init(drop)

----------------------------------------------------------------------------
(* importer/_parse_data.py: parse_coco *)

ImageExts == {".jpg", ".png", ".jpeg", ".bmp"}

\* Mutant of list_files: every file, whatever its extension.
list_files_any(folder, match) == folder

\* list_files(in_path, match): the files whose extension is in match.
list_files(folder, match) == SelectSeq(folder, LAMBDA f : f.name.ext \in match)

\* A JSON number n as a coordinate (coordinates count 1/CoordScale pixels).
ToCoord(n) == n * CoordScale

\* {k: v for ...} over a list: a later item replaces the value of an equal
\* key and keeps the key's place.  A dict is a sequence of [key, value].
RECURSIVE DictOf(_, _)
DictOf(items, d) ==
    IF items = <<>> THEN d
    ELSE LET it == items[1]
             at == {i \in 1..Len(d) : d[i].key = it.key}
         IN  DictOf(Tail(items),
                    IF at = {} THEN Append(d, it)
                    ELSE [d EXCEPT ![CHOOSE i \in at : TRUE] = it])

DictHas(d, k) == \E i \in 1..Len(d) : d[i].key = k

DictGet(d, k) == d[CHOOSE i \in 1..Len(d) : d[i].key = k].value

\* Mutant of bbox_points: the second corner is taken to be (w, h).
bbox_points_size(bbox) ==
    <<[x |-> ToCoord(bbox[1]), y |-> ToCoord(bbox[2])],
      [x |-> ToCoord(bbox[3]), y |-> ToCoord(bbox[4])]>>

\* points = [{x: bbox[0], y: bbox[1]}, {x: bbox[0]+bbox[2], y: bbox[1]+bbox[3]}]
bbox_points(bbox) ==
    <<[x |-> ToCoord(bbox[1]), y |-> ToCoord(bbox[2])],
      [x |-> ToCoord(bbox[1] + bbox[3]), y |-> ToCoord(bbox[2] + bbox[4])]>>

\* [{x: p[0], y: p[1]} for p in [flat[i:i+2] for i in range(len(flat))[::step]]]
stride_points(flat, step) ==
    LET n == (Len(flat) + step - 1) \div step
    IN  [k \in 1..n |-> [x |-> ToCoord(flat[(k - 1) * step + 1]),
                         y |-> ToCoord(flat[(k - 1) * step + 2])]]

\* p[1] raises IndexError when the last slice holds a single number.
stride_raises(flat, step) == Len(flat) % step = 1

\* str(n)
Str(n) == [str |-> n]

\* The body of "for anno in annos": [kind: "obj" | "skip" | "raise", obj].
parse_coco_anno(anno, id_label_mapping) ==
    LET raise == [kind |-> "raise", obj |-> <<>>]
        make(tool_type, points) ==
            IF ~HasKey(anno, "id") \/ ~HasKey(anno, "category_id")
            THEN raise
            ELSE IF ~DictHas(id_label_mapping, anno.category_id) THEN raise
            ELSE [kind |-> "obj",
                  obj |-> [type |-> tool_type,
                           trackName |-> Str(anno.id),
                           className |->
                               DictGet(id_label_mapping, anno.category_id),
                           contour |-> [points |-> points]]]
    IN  IF ~HasKey(anno, "bbox") THEN raise
        ELSE IF anno.bbox # <<>>
        THEN IF Len(anno.bbox) < 4 THEN raise
             ELSE make("RECTANGLE", bbox_points(anno.bbox))
        ELSE IF ~HasKey(anno, "segmentation") THEN raise
        ELSE IF anno.segmentation # <<>>
        THEN IF stride_raises(anno.segmentation, 2) THEN raise
             ELSE make("POLYGON", stride_points(anno.segmentation, 2))
        ELSE IF ~HasKey(anno, "keypoints") THEN raise
        ELSE IF anno.keypoints # <<>>
        THEN IF stride_raises(anno.keypoints, 3) THEN raise
             ELSE make("POLYLINE", stride_points(anno.keypoints, 3))
        ELSE [kind |-> "skip", obj |-> <<>>]

\* objects of one result file: [raised, objects]
RECURSIVE parse_coco_objects(_, _, _)
parse_coco_objects(annos, id_label_mapping, acc) ==
    IF annos = <<>> \/ acc.raised THEN acc
    ELSE LET r == parse_coco_anno(annos[1], id_label_mapping)
         IN  parse_coco_objects(Tail(annos), id_label_mapping,
                CASE r.kind = "raise" -> [acc EXCEPT !.raised = TRUE]
                  [] r.kind = "skip" -> acc
                  [] OTHER -> [acc EXCEPT !.objects = Append(@, r.obj)])

\* for name, annos in name_anno_mapping.items(): write <stem>.json
RECURSIVE parse_coco_write(_, _, _)
parse_coco_write(name_anno_mapping, id_label_mapping, out) ==
    IF name_anno_mapping = <<>> \/ out.raised THEN out
    ELSE LET name == name_anno_mapping[1].key
             r == parse_coco_objects(name_anno_mapping[1].value,
                                     id_label_mapping,
                                     [raised |-> FALSE, objects |-> <<>>])
             final_json == [sourceType |-> "sourceType",
                            sourceName |-> "coco", objects |-> r.objects]
         IN  parse_coco_write(Tail(name_anno_mapping), id_label_mapping,
                IF r.raised
                THEN [out EXCEPT !.raised = TRUE]
                ELSE [out EXCEPT !.result =
                        [n \in (DOMAIN @) \cup {name.stem} |->
                            IF n = name.stem THEN final_json ELSE @[n]]])

EmptyFolder == [dirs |-> {}, image |-> {}, result |-> <<>>, raised |-> FALSE]

\* parse_coco(src, out): [error, out]; out.raised when an exception escapes.
parse_coco(src, folder) ==
    LET imgs == list_files(src, ImageExts)
        coco_files == list_files(src, {".json"})
        data == coco_files[1].content
        keyed(k) == IF HasKey(data, k) THEN data[k] ELSE <<>>
        images_ == keyed("images")
        categories == keyed("categories")
        annotations_ == keyed("annotations")
        id_name_mapping ==
            DictOf([i \in 1..Len(images_) |->
                        [key |-> images_[i].id,
                         value |-> images_[i].file_name]], <<>>)
        id_label_mapping ==
            DictOf([i \in 1..Len(categories) |->
                        [key |-> categories[i].id,
                         value |-> categories[i].name]], <<>>)
        name_anno_mapping ==
            DictOf([i \in 1..Len(id_name_mapping) |->
                        [key |-> id_name_mapping[i].value,
                         value |->
                            SelectSeq(annotations_,
                                LAMBDA x : x.image_id
                                             = id_name_mapping[i].key)]],
                   <<>>)
        copied == [folder EXCEPT
                     !.dirs = @ \cup {"image", "result"},
                     !.image = @ \cup {imgs[i].name : i \in 1..Len(imgs)}]
    IN  IF coco_files = <<>>
        THEN [error |-> "The .json result file of coco format was not found",
              out |-> folder]
        ELSE IF Len(coco_files) # 1
        THEN [error |-> "There are too many .json files to parse",
              out |-> folder]
        ELSE IF images_ = <<>> \/ categories = <<>> \/ annotations_ = <<>>
        THEN [error |-> "Cannot parse this format", out |-> folder]
        ELSE IF imgs = <<>>
        THEN [error |-> "The image was not found", out |-> folder]
        ELSE [error |-> "",
              out |-> parse_coco_write(name_anno_mapping, id_label_mapping,
                                       copied)]

\* Parser(source_path).parser('coco', output)
ParseCoco ==
    /\ parse_pc = "staged"
    /\ LET r == parse_coco(coco_src, parse_out)
       IN  /\ parse_out' = r.out
           /\ IF r.out.raised
              THEN /\ parse_pc' = "raised"
                   /\ UNCHANGED parse_error
              ELSE /\ parse_pc' = "done"
                   /\ parse_error' = r.error
    /\ UNCHANGED coco_src
    /\ UNCHANGED notParse

\* The exported document and the images it names are put into the folder
\* that is then imported.
StageExport ==
    /\ coco_pc = "done"
    /\ parse_pc = "idle"
    /\ LET doc == coco_file[1] IN
       coco_src' =
          <<[name |-> [stem |-> "ds_coco", ext |-> ".json"], content |-> doc]>>
          \o [i \in 1..Len(doc.images) |->
                [name |-> doc.images[i].file_name, content |-> <<>>]]
    /\ parse_pc' = "staged"
    /\ UNCHANGED <<parse_out, parse_error>>
    /\ UNCHANGED notParse

ParseInit ==
    /\ coco_src = <<>>
    /\ parse_out = EmptyFolder
    /\ parse_error = ""
    /\ parse_pc = "idle"

ParseIdle == ParseInit

\* An unpacked archive is handed to Parser(source_path).
StageSource(src) ==
    /\ parse_pc = "idle"
    /\ coco_src = <<>>
    /\ coco_src' = src
    /\ parse_pc' = "staged"
    /\ UNCHANGED <<parse_out, parse_error>>
    /\ UNCHANGED notParse

(* Archives: no, one or two .json files and no, one or two images.  A
   document has each of images, categories and annotations absent, empty or
   filled; image ids and category ids are not repeated. *)
SourceImages ==
    {<<>>,
     <<[id |-> 0, file_name |-> [stem |-> "a", ext |-> ".jpg"]]>>,
     <<[id |-> 0, file_name |-> [stem |-> "a", ext |-> ".jpg"]],
       [id |-> 1, file_name |-> [stem |-> "b", ext |-> ".png"]]>>}

SourceCategories == {<<>>, <<[id |-> 1, name |-> "car"]>>}

SourceAnnotations ==
    {<<>>,
     <<[id |-> 0, image_id |-> 0, category_id |-> 1,
        bbox |-> <<1, 2, 3, 4>>, segmentation |-> <<>>]>>,
     <<[id |-> 0, image_id |-> 1, category_id |-> 1,
        bbox |-> <<>>, segmentation |-> <<>>, keypoints |-> <<>>]>>,
     <<[id |-> 0, image_id |-> 0, category_id |-> 2,
        bbox |-> <<1, 2, 3, 4>>, segmentation |-> <<>>]>>}

\* A key of a document: absent when opt is <<>>, else holding opt[1].
DocKey(k, opt) == IF opt = <<>> THEN <<>> ELSE k :> opt[1]

SourceDocs ==
    {DocKey("images", im) @@ DocKey("categories", ca)
        @@ DocKey("annotations", an) :
        im \in {<<>>} \cup {<<x>> : x \in SourceImages},
        ca \in {<<>>} \cup {<<x>> : x \in SourceCategories},
        an \in {<<>>} \cup {<<x>> : x \in SourceAnnotations}}

SourceJsons ==
    {<<>>}
    \cup {<<[name |-> [stem |-> "ds", ext |-> ".json"], content |-> d]>> :
            d \in SourceDocs}
    \cup {<<[name |-> [stem |-> "ds", ext |-> ".json"], content |-> d],
            [name |-> [stem |-> "notes", ext |-> ".json"], content |-> <<>>]>> :
            d \in SourceDocs}

SourceImageFiles ==
    {<<>>,
     <<[name |-> [stem |-> "a", ext |-> ".jpg"], content |-> <<>>]>>,
     <<[name |-> [stem |-> "a", ext |-> ".jpg"], content |-> <<>>],
       [name |-> [stem |-> "readme", ext |-> ".txt"], content |-> <<>>]>>,
     <<[name |-> [stem |-> "readme", ext |-> ".txt"], content |-> <<>>]>>}

CocoSources == {js \o fs : js \in SourceJsons, fs \in SourceImageFiles}

ParseCocoNext ==
    \/ \E src \in CocoSources : StageSource(src)
    \/ ParseCoco

----------------------------------------------------------------------------
(* exporter/_popular.py: alpha_in_pi (and KittiDataset.alpha_in_pi, the same
   formula).  Angles, like lengths, count 1/10000 of their unit; PiUnits is
   math.pi in these units, so that pi/2 and pi/4 are whole numbers too. *)

PiUnits == 31416

\* Mutant of alpha_in_pi: floor(a / 2pi) instead of floor((a + pi) / 2pi).
alpha_in_pi_unshifted(a) == a - (a \div (2 * PiUnits)) * 2 * PiUnits

\* a - math.floor((a + pi) / (2 * pi)) * 2 * pi
alpha_in_pi(a) == a - ((a + PiUnits) \div (2 * PiUnits)) * 2 * PiUnits

\* alpha_in_pi applied to the argument, then to its own result.
AlphaInPi ==
    /\ Len(fn_out) < 2
    /\ fn_in \in Int
    /\ fn_out' = Append(fn_out, alpha_in_pi(IF fn_out = <<>> THEN fn_in
                                            ELSE fn_out[Len(fn_out)]))
    /\ UNCHANGED fn_in
    /\ UNCHANGED notFn

\* polygon_area applied to a point list, and to the same list reversed.
PolygonArea ==
    /\ fn_out = <<>>
    /\ LET x == [i \in 1..Len(fn_in) |-> fn_in[i].x]
           y == [i \in 1..Len(fn_in) |-> fn_in[i].y]
       IN  fn_out' = <<polygon_area(x, y),
                       polygon_area(Reverse(x), Reverse(y))>>
    /\ UNCHANGED fn_in
    /\ UNCHANGED notFn

FnIdle == fn_in = <<>> /\ fn_out = <<>>

(* Arguments: angles at and next to the multiples of pi/4, up to MaxAngle of
   them either way; polygons of at most MaxPolygon points with coordinates
   (in 1/CoordScale pixels) of PolyCoords. *)
MaxAngle == 12
MaxPolygon == 3

AlphaArgs ==
    {k * (PiUnits \div 4) + d : k \in (-MaxAngle)..MaxAngle, d \in {-1, 0, 1}}

PolyCoords == {0, 3, 8}

PolyPoints == [x : PolyCoords, y : PolyCoords]

----------------------------------------------------------------------------
(* The numbers of the KITTI transform.  Lengths and angles count 1/10000 of
   their unit.  A 4x4 matrix is a sequence of four rows; its rotation part
   is unitless and its last column counts lengths. *)

\* f"{v:.2f}", and float() of that text: the nearest 1/100.
Fmt2(v) == PyRoundDiv(v, 100) * 100

\* m @ v for a point v = [x, y, z, 1]
MatVec(m, v) ==
    [i \in 1..4 |-> m[i][1] * v[1] + m[i][2] * v[2] + m[i][3] * v[3]
                    + m[i][4] * v[4]]

\* numpy.linalg.inv of a matrix whose rotation part is orthogonal and whose
\* translation is zero: the transpose.
inv(m) == [i \in 1..4 |-> [j \in 1..4 |-> m[j][i]]]

(* A direction [cos a, sin a, 0] or [cos a, 0, sin a] keeps its angle a apart:
   a component is the pair of its coefficients of cos a and of sin a. *)
Zero == [c |-> 0, s |-> 0]

Cos == [c |-> 1, s |-> 0]

Sin == [c |-> 0, s |-> 1]

\* (m @ [u1, u2, u3, 1] - m @ [0, 0, 0, 1])[i]
DirRow(m, u, i) ==
    [c |-> m[i][1] * u[1].c + m[i][2] * u[2].c + m[i][3] * u[3].c,
     s |-> m[i][1] * u[1].s + m[i][2] * u[2].s + m[i][3] * u[3].s]

\* An angle as np.cos and np.sin see it: within [-pi, pi] as it is (pi and
\* -pi are different floats), else within a turn of 0.
within_turn(a) == IF Abs(a) <= PiUnits THEN a ELSE alpha_in_pi(a)

\* The sign of the float np.cos(a): cos(pi/2) and cos(-pi/2) are tiny
\* positive floats.
cos_sign(a) == IF Abs(within_turn(a)) <= PiUnits \div 2 THEN 1 ELSE -1

\* The sign of the float np.sin(a): sin(pi) is a tiny positive float and
\* sin(-pi) a tiny negative one.
sin_sign(a) ==
    IF within_turn(a) = 0 THEN 0 ELSE IF within_turn(a) > 0 THEN 1 ELSE -1

\* np.arctan2(y, x) of two components of a direction of angle a.
arctan2_dir(y, x, a) ==
    LET sgn(u) == IF u = Cos THEN cos_sign(a)
                  ELSE IF u = Sin THEN sin_sign(a) ELSE 0
        t == within_turn(a)
    IN  CASE y = Sin /\ x = Cos -> t
          [] y = Cos /\ x = Sin ->
                IF t < -(PiUnits \div 2) THEN -(3 * (PiUnits \div 2)) - t
                ELSE PiUnits \div 2 - t
          [] y = Zero -> IF sgn(x) < 0 THEN PiUnits ELSE 0
          [] y # Zero /\ x = Zero -> sgn(y) * (PiUnits \div 2)

\* atan(1), atan(1/2), atan(1/4), ... in 1/1000000
AtanTable ==
    <<785398, 463648, 244979, 124355, 62419, 31240, 15624, 7812, 3906, 1953,
      977, 488, 244, 122, 61, 31, 15, 8, 4, 2, 1>>

\* The angle of (x, y), x > 0, in 1/1000000, by rotating (x, y) onto the
\* x axis in steps of AtanTable.
RECURSIVE cordic(_, _, _, _)
cordic(x, y, z, i) ==
    IF i > Len(AtanTable) \/ y = 0 THEN z
    ELSE LET d == 2 ^ (i - 1)
         IN  IF y > 0
             THEN cordic(x + y \div d, y - x \div d, z + AtanTable[i], i + 1)
             ELSE cordic(x - y \div d, y + x \div d, z - AtanTable[i], i + 1)

\* np.arctan2(y, x) of two lengths: exact on the axes and the diagonals,
\* to the nearest 1/10000 elsewhere.
arctan2(y, x) ==
    CASE y = 0 /\ x >= 0 -> 0
      [] y = 0 /\ x < 0 -> PiUnits
      [] y # 0 /\ x = 0 -> (IF y > 0 THEN 1 ELSE -1) * (PiUnits \div 2)
      [] y # 0 /\ x # 0 /\ Abs(y) = Abs(x) ->
            (IF y > 0 THEN 1 ELSE -1)
                * ((IF x > 0 THEN 1 ELSE 3) * (PiUnits \div 4))
      [] y # 0 /\ x > 0 /\ Abs(y) # Abs(x) ->
            PyRoundDiv(cordic(x * 1024, y * 1024, 0, 1), 100)
      [] y # 0 /\ x < 0 /\ Abs(y) # Abs(x) ->
            (IF y > 0 THEN PiUnits ELSE -PiUnits)
                + PyRoundDiv(cordic(-x * 1024, -y * 1024, 0, 1), 100)

\* The extrinsic whose camera axis i is the lidar axis p[i]; no translation.
AxisPermutation(p) ==
    [i \in 1..4 |-> [j \in 1..4 |->
        IF i = 4 \/ j = 4 THEN (IF i = j THEN 1 ELSE 0)
        ELSE IF p[i] = j THEN 1 ELSE 0]]

AxisPermutations ==
    {AxisPermutation(p) : p \in {<<1, 2, 3>>, <<1, 3, 2>>, <<2, 1, 3>>,
                                 <<2, 3, 1>>, <<3, 1, 2>>, <<3, 2, 1>>}}

----------------------------------------------------------------------------
(* exporter/_popular.py: gen_alpha, find_attr, _to_kitti and _to_kitti_like.
   A record is [data |-> [name, cameraConfig |-> [url]], result]; its result
   is <<>> (an empty dict) or <<[objects |-> ...]>>.  A URL string is
   [serves |-> the JSON document a GET of it returns], the list of the
   cameras' parameters.  A size3D or center3D dict lists x, y, z in this
   order.  The folder maps <<cam_index, file_name>> to the lines of
   label_<cam_index>/<file_name>.txt. *)

\* ry and alpha of a box of yaw rz
gen_alpha(rz, ext_matrix, lidar_center) ==
    LET u == <<Cos, Sin, Zero>>
        ry == -alpha_in_pi(arctan2_dir(DirRow(ext_matrix, u, 3),
                                       DirRow(ext_matrix, u, 1), rz))
        cam_center == MatVec(ext_matrix, lidar_center \o <<1>>)
        theta == alpha_in_pi(arctan2(cam_center[1], cam_center[3]))
    IN  [ry |-> ry, alpha |-> ry - theta]

\* An attribute value is [eval |-> n], a text that eval() turns into n, or
\* [bad |-> TRUE], one that eval() raises on.
attrs_map(data_list) ==
    DictOf([i \in 1..Len(data_list) |->
               [key |-> data_list[i].name, value |-> data_list[i].value]],
           <<>>)

find_attr_raises(data_list, target_key) ==
    /\ DictHas(attrs_map(data_list), target_key)
    /\ ~HasKey(DictGet(attrs_map(data_list), target_key), "eval")

\* eval(attrs_map.get(target_key, '0'))
find_attr(data_list, target_key) ==
    IF DictHas(attrs_map(data_list), target_key)
    THEN DictGet(attrs_map(data_list), target_key).eval
    ELSE 0

\* truncated and occluded of a rect: both come from one try block.
kitti_attrs(rect) ==
    IF \/ ~HasKey(rect, "classValues")
       \/ find_attr_raises(rect.classValues, "truncated")
       \/ find_attr_raises(rect.classValues, "occluded")
    THEN [truncated |-> 0, occluded |-> 0]
    ELSE [truncated |-> find_attr(rect.classValues, "truncated"),
          occluded |-> find_attr(rect.classValues, "occluded")]

\* Mutant of obj_3d_of: no 3D_BOX is found.
obj_3d_none(anno_objects) == <<>>

\* {x['trackId']: x for x in anno_objects if x['type'] == '3D_BOX'}
obj_3d_of(anno_objects) ==
    LET boxes == SelectSeq(anno_objects, LAMBDA x : x.type = "3D_BOX")
    IN  DictOf([i \in 1..Len(boxes) |->
                   [key |-> boxes[i].trackId, value |-> boxes[i]]], <<>>)

\* Mutant of bottom_center: the center is not moved to the bottom face.
bottom_center_kept(point, height) == point

\* [point[0], point[1], point[2] - height / 2]
bottom_center(point, height) ==
    <<point[1], point[2], point[3] - height \div 2>>

\* cam_param[cam_index] or min() of no points raises.
kitti_line_raises(rect, cam_param) ==
    \/ rect.contour.viewIndex >= Len(cam_param)
    \/ rect.contour.points = <<>>

\* The line of one rect.
kitti_line(rect, obj_3d, cam_param) ==
    LET cam_index == rect.contour.viewIndex
        ext_matrix == cam_param[cam_index + 1].camera_external
        label == rect.className
        attrs == kitti_attrs(rect)
        pts == rect.contour.points
        x_list == [i \in 1..Len(pts) |-> pts[i].x]
        y_list == [i \in 1..Len(pts) |-> pts[i].y]
        bbox == <<Fmt2(SeqMin(x_list)), Fmt2(SeqMin(y_list)),
                  Fmt2(SeqMax(x_list)), Fmt2(SeqMax(y_list))>>
    IN  IF DictHas(obj_3d, rect.trackId)
        THEN LET contour_3d == DictGet(obj_3d, rect.trackId).contour
                 length == contour_3d.size3D.x
                 width == contour_3d.size3D.y
                 height == contour_3d.size3D.z
                 cur_rz == contour_3d.rotation3D.z
                 point == <<contour_3d.center3D.x, contour_3d.center3D.y,
                            contour_3d.center3D.z>>
                 g == gen_alpha(cur_rz, ext_matrix, point)
                 cam == MatVec(ext_matrix,
                               bottom_center(point, height) \o <<1>>)
             IN  <<label, attrs.truncated, attrs.occluded, Fmt2(g.alpha)>>
                 \o bbox
                 \o <<Fmt2(height), Fmt2(width), Fmt2(length),
                      Fmt2(cam[1]), Fmt2(cam[2]), Fmt2(cam[3]),
                      Fmt2(g.ry), 10000>>
        ELSE <<"DontCare", -10000, -10000, -100000>>
             \o bbox
             \o <<-10000, -10000, -10000,
                  -10000000, -10000000, -10000000, -100000>>

\* Mutant of folder_append: the file is opened with 'w'.
folder_write(folder, path, line) ==
    [q \in DOMAIN folder \cup {path} |->
        IF q = path THEN <<line>> ELSE folder[q]]

\* open(txt_file, 'a+').write(string)
folder_append(folder, path, line) ==
    [q \in DOMAIN folder \cup {path} |->
        IF q = path
        THEN (IF path \in DOMAIN folder THEN folder[path] ELSE <<>>)
             \o <<line>>
        ELSE folder[q]]

\* The loop over the rects of one record, up to the first that raises.
RECURSIVE kitti_lines(_, _, _, _, _)
kitti_lines(rects, obj_3d, cam_param, file_name, folder) ==
    IF rects = <<>> THEN [raised |-> FALSE, folder |-> folder]
    ELSE IF kitti_line_raises(rects[1], cam_param)
    THEN [raised |-> TRUE, folder |-> folder]
    ELSE kitti_lines(Tail(rects), obj_3d, cam_param, file_name,
                     folder_append(folder,
                                   <<rects[1].contour.viewIndex, file_name>>,
                                   kitti_line(rects[1], obj_3d, cam_param)))

\* anno['result'].get('objects')
anno_objects_of(anno) ==
    IF anno.result # <<>> /\ HasKey(anno.result[1], "objects")
    THEN anno.result[1].objects ELSE <<>>

\* Mutant of obj_rect_of: every 2D_RECT has an entry of its own.
obj_rect_each(anno_objects) ==
    LET found == SelectSeq(anno_objects, LAMBDA x : x.type = "2D_RECT")
    IN  [i \in 1..Len(found) |-> [key |-> i, value |-> found[i]]]

\* {f"{trackId}-{viewIndex}": x for x in anno_objects if x['type'] == '2D_RECT'}
obj_rect_of(anno_objects) ==
    LET found == SelectSeq(anno_objects, LAMBDA x : x.type = "2D_RECT")
    IN  DictOf([i \in 1..Len(found) |->
                   [key |-> <<found[i].trackId, found[i].contour.viewIndex>>,
                    value |-> found[i]]], <<>>)

\* _to_kitti: one turn of the loop over the records.
KittiRecord(anno) ==
    /\ kitti_pc = "loop"
    /\ kitti_annotation' = Append(kitti_annotation, anno)
    /\ LET anno_objects == anno_objects_of(anno)
           config_url == anno.data.cameraConfig.url
       IN  IF anno_objects = <<>>
           THEN UNCHANGED <<kitti_folder, kitti_rects, kitti_pc>>
           ELSE IF ~HasKey(config_url, "serves")
           THEN /\ kitti_pc' = "raised"
                /\ UNCHANGED <<kitti_folder, kitti_rects>>
           ELSE LET cam_param == config_url.serves
                    obj_rect == obj_rect_of(anno_objects)
                    rects == [i \in 1..Len(obj_rect) |-> obj_rect[i].value]
                    r == kitti_lines(rects, obj_3d_of(anno_objects),
                                     cam_param, anno.data.name, kitti_folder)
                IN  /\ kitti_rects' = rects
                    /\ kitti_folder' = r.folder
                    /\ kitti_pc' = IF r.raised THEN "raised" ELSE "loop"
    /\ UNCHANGED notKitti

\* groupby(rects, func=lambda x: x["trackId"]): the rects of each trackId, in
\* their order.
groupby(rects) ==
    [k \in {rects[i].trackId : i \in 1..Len(rects)} |->
        SelectSeq(rects, LAMBDA x : x.trackId = k)]

\* rect_map.get(track_id, [])
rect_map_get(rect_map, track_id) ==
    IF track_id \in DOMAIN rect_map THEN rect_map[track_id] ELSE <<>>

\* Mutant of missing_views: every view gets a placeholder.
missing_views_all(n_cams, cur_views) == [i \in 1..n_cams |-> i - 1]

\* The view_id of range(n_cams) that are not in cur_views
missing_views(n_cams, cur_views) ==
    SelectSeq([i \in 1..n_cams |-> i - 1], LAMBDA v : v \notin cur_views)

add_rect(track_id, view_id, label) ==
    [type |-> "2D_RECT",
     trackId |-> track_id,
     classValues |-> <<>>,
     contour |-> [points |-> <<[x |-> 0, y |-> 0], [x |-> 0, y |-> 0]>>,
                  viewIndex |-> view_id],
     className |-> label]

\* The completion pass over the items of obj_3d.
RECURSIVE complete_rects(_, _, _, _)
complete_rects(items, rect_map, n_cams, rects) ==
    IF items = <<>> THEN rects
    ELSE LET track_id == items[1].key
             label == items[1].value.className
             seen == rect_map_get(rect_map, track_id)
             cur_views == {seen[i].contour.viewIndex : i \in 1..Len(seen)}
             views == missing_views(n_cams, cur_views)
         IN  complete_rects(Tail(items), rect_map, n_cams,
                            rects \o [i \in 1..Len(views) |->
                                         add_rect(track_id, views[i], label)])

\* _to_kitti_like: one turn of the loop over the records.
KittiLikeRecord(anno) ==
    /\ kitti_pc = "loop"
    /\ kitti_annotation' = Append(kitti_annotation, anno)
    /\ LET anno_objects == anno_objects_of(anno)
           config_url == anno.data.cameraConfig.url
       IN  IF anno_objects = <<>>
           THEN UNCHANGED <<kitti_folder, kitti_rects, kitti_pc>>
           ELSE IF ~HasKey(config_url, "url")
           THEN /\ kitti_pc' = "raised"
                /\ UNCHANGED <<kitti_folder, kitti_rects>>
           ELSE LET cam_param == config_url.url.serves
                    n_cams == Len(cam_param)
                    observed == SelectSeq(anno_objects,
                                          LAMBDA x : x.type = "2D_RECT")
                    obj_3d == obj_3d_of(anno_objects)
                    rects == complete_rects(obj_3d, groupby(observed),
                                            n_cams, observed)
                    r == kitti_lines(rects, obj_3d, cam_param,
                                     anno.data.name, kitti_folder)
                IN  /\ kitti_rects' = rects
                    /\ kitti_folder' = r.folder
                    /\ kitti_pc' = IF r.raised THEN "raised" ELSE "loop"
    /\ UNCHANGED notKitti

KittiInit ==
    /\ kitti_annotation = <<>>
    /\ kitti_folder = <<>>
    /\ kitti_rects = <<>>
    /\ kitti_pc = "loop"

KittiIdle == KittiInit

(* Records for the KITTI exporters: at most MaxRecords records holding at most
   MaxKittiObjects objects together; boxes of the tracks t1 and t2 and rects
   of the tracks t1, t2 and t3, seen by up to three cameras. *)
MaxKittiObjects == 2

KittiBox(track_id, label, center, size, rz) ==
    [type |-> "3D_BOX", trackId |-> track_id, className |-> label,
     contour |-> [size3D |-> [x |-> size[1], y |-> size[2], z |-> size[3]],
                  center3D |-> [x |-> center[1], y |-> center[2],
                                z |-> center[3]],
                  rotation3D |-> [x |-> 0, y |-> 0, z |-> rz]]]

KittiRect(track_id, label, view, points) ==
    [type |-> "2D_RECT", trackId |-> track_id, className |-> label,
     classValues |-> <<[name |-> "occluded", value |-> [eval |-> 10000]]>>,
     contour |-> [points |-> points, viewIndex |-> view]]

KittiObjectDomain ==
    {KittiBox("t1", "Car", <<100000, 100000, 0>>, <<40000, 20000, 15000>>, 0),
     KittiBox("t2", "Van", <<-50049, 0, 0>>, <<39950, 18149, 16246>>,
              PiUnits \div 4)}
    \cup {KittiRect("t1", "Car", v,
                    <<[x |-> 1012345, y |-> 200000], [x |-> 300000, y |-> 40]>>)
            : v \in 0..2}
    \cup {KittiRect("t2", "Van", 1, <<[x |-> 0, y |-> 0]>>),
          KittiRect("t3", "Bus", 0, <<[x |-> 10000, y |-> 20000],
                                      [x |-> 30000, y |-> 40000]>>)}

KittiCameras ==
    <<[camera_external |-> AxisPermutation(<<2, 3, 1>>)],
      [camera_external |-> AxisPermutation(<<1, 3, 2>>)],
      [camera_external |-> AxisPermutation(<<1, 2, 3>>)]>>

\* cameraConfig.url as _to_kitti reads it, a URL string, and as _to_kitti_like
\* reads it, a dict holding the URL string.
KittiConfigs ==
    {[url |-> [serves |-> SubSeq(KittiCameras, 1, 2)]]}
    \cup {[url |-> [url |-> [serves |-> SubSeq(KittiCameras, 1, n)]]]
            : n \in 2..3}

KittiResults(room) ==
    {<<>>} \cup
    {<<[objects |-> objs]>> : objs \in SeqUpTo(KittiObjectDomain, room)}

KittiCount(annos) ==
    SeqSum([i \in 1..Len(annos) |-> Len(anno_objects_of(annos[i]))])

KittiRecords ==
    {[data |-> [name |-> Len(kitti_annotation), cameraConfig |-> cfg],
      result |-> res] :
        cfg \in KittiConfigs,
        res \in KittiResults(MaxKittiObjects - KittiCount(kitti_annotation))}

KittiLikeNext ==
    /\ Len(kitti_annotation) < MaxRecords
    /\ \E anno \in KittiRecords : KittiLikeRecord(anno)

----------------------------------------------------------------------------
(* importer/_parse_data.py: KittiDataset.parse_result.  A label file is the
   sequence of its lines, a line the sequence of its space-separated
   fields: the label, then numbers of two decimals. *)

\* Mutant of is_dropped: only DontCare lines are skipped.
is_dropped_dontcare(label) == label = "DontCare"

\* label in ['DontCare', 'Misc']
is_dropped(label) == label \in {"DontCare", "Misc"}

\* data[4:8], data[8:11] and data[11:14] must hold 4, 3 and 3 numbers and
\* data[14] must exist: a shorter line raises.
parse_line_raises(data) == Len(data) < 15

\* The 3D_BOX and the 2D_RECT of one kept line.
parse_line(data, ext_matrix, track_id, num) ==
    LET label == data[1]
        x0 == data[5]
        y0 == data[6]
        x1 == data[7]
        y1 == data[8]
        height == data[9]
        width == data[10]
        length == data[11]
        cam_center == <<data[12], data[13], data[14]>>
        lidar_center == MatVec(inv(ext_matrix), cam_center \o <<1>>)
        ry == data[15]
        u == <<Cos, Zero, Sin>>
        rz == arctan2_dir(DirRow(inv(ext_matrix), u, 2),
                          DirRow(inv(ext_matrix), u, 1), -ry)
    IN  <<[type |-> "3D_BOX",
           className |-> label,
           trackId |-> track_id,
           trackName |-> Str(num),
           contour |-> [size3D |-> [x |-> length, y |-> width, z |-> height],
                        center3D |-> [x |-> lidar_center[1],
                                      y |-> lidar_center[2],
                                      z |-> lidar_center[3] + height \div 2],
                        rotation3D |-> [x |-> 0, y |-> 0,
                                        z |-> alpha_in_pi(rz)]]],
          [type |-> "2D_RECT",
           className |-> label,
           trackId |-> track_id,
           trackName |-> num,
           contour |-> [points |-> <<[x |-> x0, y |-> y0],
                                     [x |-> x0, y |-> y1],
                                     [x |-> x1, y |-> y1],
                                     [x |-> x1, y |-> y0]>>,
                        size3D |-> [x |-> 0, y |-> 0, z |-> 0],
                        center3D |-> [x |-> 0, y |-> 0, z |-> 0],
                        viewIndex |-> 0,
                        rotation3D |-> [x |-> 0, y |-> 0, z |-> 0]]]>>

\* The loop over the lines; ids are the results of generate(size=16), one
\* for each line that is kept.
RECURSIVE parse_lines(_, _, _, _, _)
parse_lines(lines, ext_matrix, ids, num, objects) ==
    IF lines = <<>> THEN [raised |-> FALSE, objects |-> objects]
    ELSE LET data == lines[1]
         IN  IF is_dropped(data[1])
             THEN parse_lines(Tail(lines), ext_matrix, ids, num, objects)
             ELSE IF parse_line_raises(data)
             THEN [raised |-> TRUE, objects |-> objects]
             ELSE parse_lines(Tail(lines), ext_matrix, Tail(ids), num + 1,
                              objects \o parse_line(data, ext_matrix,
                                                    ids[1], num))

\* What generate(size=16) returns: ids, each unlike the ones before it.
NanoIds == {"n1", "n2", "n3", "n4", "n5"}

StaleIds(n) == SeqOfLen(NanoIds, n)

FreshIds(n) ==
    {ids \in SeqOfLen(NanoIds, n) :
        \A i, j \in 1..n : i # j => ids[i] # ids[j]}

Kept(lines) == SelectSeq(lines, LAMBDA data : ~is_dropped(data[1]))

\* parse_result(label_file, cam_ext, result_file)
ParseResult ==
    /\ label_pc = "idle"
    /\ \E ids \in FreshIds(Len(Kept(label_file))) :
          LET r == parse_lines(label_file, cam_ext, ids, 1, <<>>)
          IN  /\ label_pc' = IF r.raised THEN "raised" ELSE "done"
              /\ result_file' = IF r.raised THEN result_file
                                ELSE <<[objects |-> r.objects]>>
    /\ UNCHANGED <<label_file, cam_ext>>
    /\ UNCHANGED notLabel

\* The dataset gets one more label line.
LabelLine(data) ==
    /\ label_pc = "idle"
    /\ label_file' = Append(label_file, data)
    /\ UNCHANGED <<cam_ext, result_file, label_pc>>
    /\ UNCHANGED notLabel

LabelInit ==
    /\ label_file = <<>>
    /\ cam_ext \in AxisPermutations
    /\ result_file = <<>>
    /\ label_pc = "idle"

LabelIdle ==
    /\ label_file = <<>>
    /\ cam_ext = <<>>
    /\ result_file = <<>>
    /\ label_pc = "idle"

(* Label files of at most MaxLines lines. *)
MaxLines == 3

\* A label line of 15 fields.
LabelLineOf(label, bbox, hwl, xyz, ry) ==
    <<label, 0, 0, 0>> \o bbox \o hwl \o xyz \o <<ry>>

LabelLines ==
    {LabelLineOf("Car", <<100000, 200000, 300000, 400000>>,
                 <<15000, 20000, 40000>>, <<100000, 50000, 0>>, 0),
     LabelLineOf("Van", <<0, 0, 505000, 10000>>,
                 <<16200, 18100, 39900>>, <<-27500, 12300, 456700>>, -7900),
     LabelLineOf("Misc", <<100000, 200000, 300000, 400000>>,
                 <<15000, 20000, 40000>>, <<100000, 50000, 0>>, 15700),
     LabelLineOf("DontCare", <<5000000, 1000000, 6000000, 1500000>>,
                 <<-10000, -10000, -10000>>,
                 <<-10000000, -10000000, -10000000>>, -100000),
     <<"\n">>}

LabelNext ==
    \/ /\ Len(label_file) < MaxLines
       /\ \E data \in LabelLines : LabelLine(data)
    \/ ParseResult

----------------------------------------------------------------------------
(* The labels of camera 0 that _to_kitti wrote for the first record become
   the label file of a dataset whose calibration gives the same extrinsic. *)

StageLabels ==
    /\ label_pc = "idle"
    /\ label_file = <<>>
    /\ kitti_annotation # <<>>
    /\ LET data == kitti_annotation[1].data
       IN  /\ HasKey(data.cameraConfig.url, "serves")
           /\ <<0, data.name>> \in DOMAIN kitti_folder
           /\ label_file' = kitti_folder[<<0, data.name>>]
           /\ cam_ext' = data.cameraConfig.url.serves[1].camera_external
    /\ UNCHANGED <<result_file, label_pc>>
    /\ UNCHANGED notLabel

(* Boxes exported and imported again: yaws at the multiples of pi/8, up to
   MaxEighths of them either way. *)
MaxEighths == 8

YawBoxes ==
    {KittiBox("t1", "Car", center, size, k * (PiUnits \div 8)) :
        center \in {<<100000, 50000, 0>>, <<-27549, 123456, 8050>>},
        size \in {<<40000, 20000, 15000>>, <<39950, 18149, 16246>>},
        k \in (-MaxEighths)..MaxEighths}

YawRecords ==
    {[data |-> [name |-> 0,
                cameraConfig |->
                    [url |-> [serves |-> <<[camera_external |-> ext]>>]]],
      result |-> <<[objects |->
                      <<box, KittiRect("t1", "Car", 0,
                                       <<[x |-> 1012345, y |-> 200000],
                                         [x |-> 300000, y |-> 40]>>)>>]>>] :
        box \in YawBoxes, ext \in AxisPermutations}

KittiRoundTripNext ==
    \/ /\ kitti_annotation = <<>>
       /\ \E anno \in YawRecords : KittiRecord(anno)
    \/ StageLabels
    \/ /\ label_file # <<>>
       /\ ParseResult

----------------------------------------------------------------------------
(* exporter/_popular.py: _to_voc.  An XML document is the record of its
   elements; the <object> elements are kept in document order. *)

\* points_x / points_y and the four texts of <bndbox>.
voc_bndbox(points) ==
    LET points_x == [i \in 1..Len(points) |-> round(points[i].x)]
        points_y == [i \in 1..Len(points) |-> round(points[i].y)]
    IN  [xmin |-> Str(SeqMin(points_x)), ymin |-> Str(SeqMin(points_y)),
         xmax |-> Str(SeqMax(points_x)), ymax |-> Str(SeqMax(points_y))]

\* The <object> element of a RECTANGLE / BOUNDING_BOX object.
voc_element(obj, label) ==
    [supercategory |-> "", name |-> label, pose |-> "Unspecified",
     truncated |-> "0", difficult |-> "0",
     attrs |-> [i \in 1..Len(obj.classValues) |->
                   <<obj.classValues[i].name, obj.classValues[i].value>>],
     bndbox |-> voc_bndbox(obj.contour.points)]

\* One iteration of "for obj in objects" on st = [objects, warnings, raised].
voc_object(obj, st) ==
    IF ~HasKey(obj, "contour") \/ ~HasKey(obj.contour, "points")
       \/ ~HasKey(obj, "type")
    THEN [st EXCEPT !.raised = TRUE]
    ELSE IF obj.type \in RectTypes
    THEN IF ~HasKey(obj, "classValues") \/ obj.contour.points = <<>>
         THEN [st EXCEPT !.raised = TRUE]
         ELSE [st EXCEPT
                 !.objects = Append(@, voc_element(obj, get_label(obj)))]
    ELSE [st EXCEPT !.warnings = Append(@, obj.type)]

RECURSIVE voc_objects(_, _, _)
voc_objects(objects, i, st) ==
    IF i > Len(objects) \/ st.raised THEN st
    ELSE voc_objects(objects, i + 1, voc_object(objects[i], st))

voc_document(anno, objects) ==
    [folder |-> file_name_of(anno.data.imageUrl),
     filename |-> file_name_of(anno.data.imageUrl),
     database |-> "Unknown",
     size |-> [width |-> Str(anno.data.width),
               height |-> Str(anno.data.height), depth |-> "3"],
     segmented |-> "0",
     objects |-> objects]

\* The statements of the try block before "if not result": file_name is
\* None when the name is missing, and None + '.xml' raises.
voc_record_raises(anno) ==
    \/ ~HasKey(anno.data, "name")
    \/ ~HasKey(anno.data, "width")
    \/ ~HasKey(anno.data, "height")
    \/ ~HasKey(anno.data, "imageUrl")

\* One iteration of "for anno in track(annotation)".
VocRecord(anno) ==
    /\ voc_pc = "loop"
    /\ UNCHANGED notVoc
    /\ voc_annotation' = Append(voc_annotation, anno)
    /\ IF voc_record_raises(anno)
       THEN /\ voc_pc' = "raised"
            /\ UNCHANGED <<voc_folder, voc_warnings>>
       ELSE IF anno.result = <<>>
       THEN UNCHANGED <<voc_folder, voc_warnings, voc_pc>>
       ELSE IF ~HasKey(anno.result[1], "objects")
       THEN /\ voc_pc' = "raised"
            /\ UNCHANGED <<voc_folder, voc_warnings>>
       ELSE LET st == voc_objects(anno.result[1].objects, 1,
                                  [objects |-> <<>>,
                                   warnings |-> voc_warnings,
                                   raised |-> FALSE])
                xml_file == [stem |-> anno.data.name, ext |-> ".xml"]
            IN  /\ voc_warnings' = st.warnings
                /\ IF st.raised
                   THEN /\ voc_pc' = "raised"
                        /\ UNCHANGED voc_folder
                   ELSE /\ voc_folder' =
                              DictOf(<<[key |-> xml_file,
                                        value |-> voc_document(anno,
                                                               st.objects)]>>,
                                     voc_folder)
                        /\ UNCHANGED voc_pc

VocInit ==
    /\ voc_annotation = <<>>
    /\ voc_folder = <<>>
    /\ voc_warnings = <<>>
    /\ voc_pc = "loop"

VocIdle == VocInit

(* The records of an image dataset: at most MaxRecords records holding at
   most MaxObjects objects in all.  The image of the third data cannot be
   fetched, the fourth has no width. *)
ImageUrl(stem, ext) ==
    [dir |-> <<"s3">>, file |-> [stem |-> stem, ext |-> ext],
     query |-> "sig=1"]

ImageDatas ==
    {[dataId |-> 1, name |-> "a", width |-> 640, height |-> 480,
      imageUrl |-> ImageUrl("a", ".jpg") @@ [serves |-> "bytes-a"]],
     [dataId |-> 2, name |-> "b", width |-> 320, height |-> 240,
      imageUrl |-> ImageUrl("b", ".png") @@ [serves |-> "bytes-b"]],
     [dataId |-> 3, name |-> "c", width |-> 320, height |-> 240,
      imageUrl |-> ImageUrl("c", ".png")],
     [dataId |-> 4, name |-> "d", height |-> 240,
      imageUrl |-> ImageUrl("d", ".png") @@ [serves |-> "bytes-d"]]}

ImageObjectDomain ==
    {[className |-> "car", type |-> "RECTANGLE",
      contour |-> [points |-> CocoPoints], classValues |-> <<>>],
     [className |-> "dog", type |-> "BOUNDING_BOX",
      contour |-> [points |-> CocoPoints],
      classValues |-> <<[name |-> "color", value |-> "red"]>>],
     [className |-> "cat", type |-> "POLYGON",
      contour |-> [points |-> CocoPoints \o <<[x |-> 5, y |-> 9]>>],
      classValues |-> <<>>],
     [className |-> "bus", type |-> "KEY_POINT",
      contour |-> [points |-> <<[x |-> 5, y |-> 9]>>],
      classValues |-> <<>>],
     [className |-> "car", type |-> "3D_BOX",
      contour |-> [size3D |-> [x |-> 4, y |-> 2, z |-> 1]],
      classValues |-> <<>>]}

ImageResults(room) ==
    {<<>>} \cup {<<[dataId |-> 1, objects |-> objs]>> :
                    objs \in SeqUpTo(ImageObjectDomain, room)}

VocNext ==
    /\ Len(voc_annotation) < MaxRecords
    /\ \E data \in ImageDatas :
        \E result \in ImageResults(MaxObjects - CountObjects(voc_annotation)) :
            VocRecord([data |-> data, result |-> result])

----------------------------------------------------------------------------
(* exporter/_popular.py: _to_labelme *)

type_mapping ==
    [RECTANGLE |-> "rectangle", POLYGON |-> "polygon",
     POLYLINE |-> "polyline"]

\* base64.b64encode(rps.content).decode()
b64encode(content) == [b64 |-> content]

labelme_coordinate(obj) ==
    LET pts == obj.contour.points
        points == [i \in 1..Len(pts) |-> <<round(pts[i].x), round(pts[i].y)>>]
        points_x == [i \in 1..Len(pts) |-> round(pts[i].x)]
        points_y == [i \in 1..Len(pts) |-> round(pts[i].y)]
    IN  IF obj.type = "RECTANGLE"
        THEN <<<<SeqMin(points_x), SeqMin(points_y)>>,
               <<SeqMax(points_x), SeqMin(points_y)>>,
               <<SeqMax(points_x), SeqMax(points_y)>>,
               <<SeqMin(points_x), SeqMax(points_y)>>>>
        ELSE points

labelme_shape(obj, shape_type) ==
    LET attributes == coco_attributes(obj.classValues)
        new_anno == [label |-> get_label(obj),
                     points |-> labelme_coordinate(obj),
                     group_id |-> "None",
                     shape_type |-> shape_type,
                     flags |-> <<>>]
    IN  IF DOMAIN attributes # {}
        THEN new_anno @@ [attributes |-> attributes] ELSE new_anno

\* One iteration of "for obj in objects" on st = [annotations, raised];
\* type_mapping[tool_type] raises KeyError for a type it does not hold.
labelme_object(obj, st) ==
    IF ~HasKey(obj, "contour") \/ ~HasKey(obj.contour, "points")
       \/ ~HasKey(obj, "type")
    THEN [st EXCEPT !.raised = TRUE]
    ELSE IF obj.type = "RECTANGLE" /\ obj.contour.points = <<>>
    THEN [st EXCEPT !.raised = TRUE]
    ELSE IF ~HasKey(obj, "classValues")
    THEN [st EXCEPT !.raised = TRUE]
    ELSE IF ~HasKey(type_mapping, obj.type)
    THEN [st EXCEPT !.raised = TRUE]
    ELSE [st EXCEPT !.annotations =
                        Append(@, labelme_shape(obj, type_mapping[obj.type]))]

RECURSIVE labelme_objects(_, _, _)
labelme_objects(objects, i, st) ==
    IF i > Len(objects) \/ st.raised THEN st
    ELSE labelme_objects(objects, i + 1, labelme_object(objects[i], st))

labelme_document(anno, shapes) ==
    [version |-> "5.0.1", flags |-> <<>>, shapes |-> shapes,
     imagePath |-> file_name_of(anno.data.imageUrl),
     imageData |-> b64encode(anno.data.imageUrl.serves),
     imageHeight |-> anno.data.height,
     imageWidth |-> anno.data.width]

\* The statements of the try block before "if not result"; requests.get
\* raises when the image cannot be fetched.
labelme_record_raises(anno) ==
    \/ ~HasKey(anno.data, "name")
    \/ ~HasKey(anno.data, "width")
    \/ ~HasKey(anno.data, "height")
    \/ ~HasKey(anno.data, "imageUrl")
    \/ ~HasKey(anno.data.imageUrl, "serves")

\* One iteration of "for anno in track(annotation)".
LabelmeRecord(anno) ==
    /\ labelme_pc = "loop"
    /\ UNCHANGED notLabelme
    /\ labelme_annotation' = Append(labelme_annotation, anno)
    /\ IF labelme_record_raises(anno)
       THEN /\ labelme_pc' = "raised"
            /\ UNCHANGED labelme_folder
       ELSE IF anno.result = <<>>
       THEN UNCHANGED <<labelme_folder, labelme_pc>>
       ELSE IF ~HasKey(anno.result[1], "objects")
       THEN /\ labelme_pc' = "raised"
            /\ UNCHANGED labelme_folder
       ELSE LET st == labelme_objects(anno.result[1].objects, 1,
                                      [annotations |-> <<>>,
                                       raised |-> FALSE])
                json_file == [stem |-> anno.data.name, ext |-> ".json"]
            IN  IF st.raised
                THEN /\ labelme_pc' = "raised"
                     /\ UNCHANGED labelme_folder
                ELSE /\ labelme_folder' =
                           DictOf(<<[key |-> json_file,
                                     value |-> labelme_document(
                                                   anno, st.annotations)]>>,
                                  labelme_folder)
                     /\ UNCHANGED labelme_pc

LabelmeInit ==
    /\ labelme_annotation = <<>>
    /\ labelme_folder = <<>>
    /\ labelme_pc = "loop"

LabelmeIdle == LabelmeInit

LabelmeNext ==
    /\ Len(labelme_annotation) < MaxRecords
    /\ \E data \in ImageDatas :
        \E result \in
              ImageResults(MaxObjects - CountObjects(labelme_annotation)) :
            LabelmeRecord([data |-> data, result |-> result])

\* _to_kitti over records of both shapes of cameraConfig.url.
KittiNext ==
    /\ Len(kitti_annotation) < MaxRecords
    /\ \E anno \in KittiRecords : KittiRecord(anno)

----------------------------------------------------------------------------
(* script_ctl.py: main.  The conversion or parse main calls is an input:
   ctl_outcome says whether it returns (and what) or raises. *)

\* Python values main handles: [type, text] for a str or an exception
\* object, [type, items] for a list.
PyStr(text) == [type |-> "str", text |-> text]

PyError(type, text) == [type |-> type, text |-> text]

\* "if not message"
py_truthy(v) ==
    IF v.type = "str" THEN v.text # ""
    ELSE IF v.type = "list" THEN v.items # <<>>
    ELSE TRUE

\* str(e)
py_str(e) == PyStr(e.text)

\* json.dump raises TypeError for a value that is neither a str nor a list
\* of them.
json_serializable(v) == v.type \in {"str", "list"}

\* The try block of main: code and message.
ctl_result(args, outcome) ==
    IF outcome.kind = "raises"
    THEN [code |-> "ERROR", message |-> py_str(outcome.error)]
    ELSE IF args.mode = "export"
    THEN [code |-> "OK", message |-> PyStr("")]
    ELSE [code |-> IF ~py_truthy(outcome.value) THEN "OK" ELSE "ERROR",
          message |-> outcome.value]

\* args.rps: None when the option is not given.
ctl_responds(args) == HasKey(args, "rps") /\ Truthy(args.rps)

\* main, from the parsed arguments on.  json.dump writes the text piece by
\* piece: when the message cannot be serialized the response file is left
\* with the text up to the "message" key, and TypeError leaves main.
Main(outcome) ==
    /\ ctl_pc = "start"
    /\ ctl_outcome' = outcome
    /\ LET rps_data == ctl_result(ctl_args, outcome)
       IN  IF ~ctl_responds(ctl_args)
           THEN /\ ctl_stdout' = <<rps_data>>
                /\ ctl_pc' = "exited"
                /\ UNCHANGED ctl_response
           ELSE IF json_serializable(rps_data.message)
           THEN /\ ctl_response' = <<rps_data>>
                /\ ctl_pc' = "exited"
                /\ UNCHANGED ctl_stdout
           ELSE /\ ctl_response' = <<[code |-> rps_data.code]>>
                /\ ctl_pc' = "crashed"
                /\ UNCHANGED ctl_stdout
    /\ UNCHANGED ctl_args
    /\ UNCHANGED notCtl

CtlInit ==
    /\ ctl_args = <<>>
    /\ ctl_outcome = <<>>
    /\ ctl_stdout = <<>>
    /\ ctl_response = <<>>
    /\ ctl_pc = "start"

CtlIdle == CtlInit

(* The command lines of main and what the call it makes can do. *)
CtlArgs ==
    {[mode |-> m, fmt |-> f] : m \in {"import", "export"},
                               f \in {"coco", "voc", "labelme", "kitti"}}
    \cup {[mode |-> m, fmt |-> f, rps |-> r] :
            m \in {"import", "export"},
            f \in {"coco", "voc", "labelme", "kitti"},
            r \in {"", "rps.json"}}

Returns(v) == [kind |-> "returns", value |-> v]

Raises(e) == [kind |-> "raises", error |-> e]

\* Result(src_zipfile=...) and Result.convert
ExportOutcomes ==
    {Returns(PyStr("")),
     Raises(PyError("SDKException", "<SourceError> src is not zip")),
     Raises(PyError("ConverterException", "<NOT_SUPPORT> ")),
     Raises(PyError("KeyError", "'result'"))}

\* parse_coco
CocoOutcomes ==
    {Returns(PyStr(t)) :
        t \in {"", "The .json result file of coco format was not found",
               "Cannot parse this format, unlike the coco standard format",
               "There are too many .json files to parse"}}
    \cup {Raises(PyError("KeyError", "'bbox'")),
          Raises(PyError("JSONDecodeError", "Expecting value"))}

\* parse_kitti
KittiOutcomes ==
    {Returns(PyStr("")),
     Returns([type |-> "list", items |-> <<"calib is not exists">>]),
     Returns([type |-> "list",
              items |-> <<"calib is not exists", "label_2 is not exists">>]),
     Returns(PyError("FileNotFoundError", "No such file: 000001.png")),
     Returns(PyError("ValueError", "could not convert string to float")),
     Returns(PyError("IndexError", "list index out of range")),
     Raises(PyError("PermissionError", "upload/point_cloud")),
     Raises(PyError("OSError", "Read-only file system"))}

\* Parser.parser
CtlOutcomes(args) ==
    IF args.mode = "export" THEN ExportOutcomes
    ELSE IF args.fmt = "coco" THEN CocoOutcomes
    ELSE IF args.fmt = "kitti" THEN KittiOutcomes
    ELSE {Raises(PyError("ParserException",
                         "<None> Do not support this format to parse"))}

CtlNext == \E outcome \in CtlOutcomes(ctl_args) : Main(outcome)

----------------------------------------------------------------------------
(* exporter/converter.py: Result.head and Result.tail.  fn_in is
   [annotation, count]: Result.annotation and the argument. *)

\* s[:count]: for a negative count all but the last -count items.
slice_to(s, count) ==
    IF count >= 0
    THEN SubSeq(s, 1, IF count < Len(s) THEN count ELSE Len(s))
    ELSE SubSeq(s, 1, IF Len(s) + count > 0 THEN Len(s) + count ELSE 0)

\* return self.annotation[:count]
head(self, count) == slice_to(self.annotation, count)

\* return self.annotation[:count]
tail(self, count) == slice_to(self.annotation, count)

ResultHead ==
    /\ ~HasKey(fn_out, "head")
    /\ fn_out' = fn_out @@ [head |-> head(fn_in, fn_in.count)]
    /\ UNCHANGED fn_in
    /\ UNCHANGED notFn

ResultTail ==
    /\ ~HasKey(fn_out, "tail")
    /\ fn_out' = fn_out @@ [tail |-> tail(fn_in, fn_in.count)]
    /\ UNCHANGED fn_in
    /\ UNCHANGED notFn

(* Annotation lists of at most MaxAnnotation records, told apart by their
   dataId, and counts from -1 to one past the longest list. *)
MaxAnnotation == 3

HeadTailArgs ==
    [annotation : SeqUpTo([dataId : 1..MaxAnnotation], MaxAnnotation),
     count : -1..(MaxAnnotation + 1)]

HeadTailNext == ResultHead \/ ResultTail

----------------------------------------------------------------------------
(* exporter/_popular.py: gen_alpha on its own.  fn_in is
   [rz, ext_matrix, lidar_center]. *)

GenAlpha ==
    /\ fn_out = <<>>
    /\ fn_out' = <<gen_alpha(fn_in.rz, fn_in.ext_matrix, fn_in.lidar_center)>>
    /\ UNCHANGED fn_in
    /\ UNCHANGED notFn

\* Yaws of whole eighths of pi, up to MaxEighths of them either way.
GenAlphaArgs ==
    [rz : {k * (PiUnits \div 8) : k \in -MaxEighths..MaxEighths},
     ext_matrix : AxisPermutations,
     lidar_center : {<<100000, 100000, 0>>, <<-100000, 0, -100000>>,
                     <<-50000, 20000, 0>>, <<0, -100000, 30000>>}]

----------------------------------------------------------------------------
(* exporter/_popular.py: the truncated / occluded block of _to_kitti on its
   own.  fn_in is the rect. *)

KittiAttrs ==
    /\ fn_out = <<>>
    /\ fn_out' = <<kitti_attrs(fn_in)>>
    /\ UNCHANGED fn_in
    /\ UNCHANGED notFn

\* classValues of at most MaxAttrs entries: a name and a text that eval()
\* turns into a number or raises on.
MaxAttrs == 2

AttrValues == {[eval |-> n] : n \in 0..3} \cup {[bad |-> TRUE]}

AttrRects ==
    {[type |-> "2D_RECT", className |-> "Car"]}
    \cup {[type |-> "2D_RECT", className |-> "Car", classValues |-> cvs] :
            cvs \in SeqUpTo([name : {"truncated", "occluded", "color"},
                             value : AttrValues], MaxAttrs)}

----------------------------------------------------------------------------
(* _to_kitti over records whose rects repeat a (trackId, viewIndex) pair:
   at most MaxPairObjects objects in all, the rects of track t1 in view 0
   drawn twice with different labels and points; the calibration of the
   second config cannot be fetched. *)
MaxPairObjects == 3

PairObjects ==
    {KittiBox("t1", "Car", <<100000, 100000, 0>>, <<40000, 20000, 15000>>, 0),
     KittiRect("t1", "Car", 0,
               <<[x |-> 10000, y |-> 20000], [x |-> 30000, y |-> 40000]>>),
     KittiRect("t1", "Tram", 0,
               <<[x |-> 50000, y |-> 60000], [x |-> 70000, y |-> 80000]>>),
     KittiRect("t1", "Car", 1,
               <<[x |-> 10000, y |-> 20000], [x |-> 30000, y |-> 40000]>>),
     KittiRect("t2", "Van", 0, <<[x |-> 0, y |-> 0]>>)}

PairConfigs ==
    {[url |-> [serves |-> SubSeq(KittiCameras, 1, 2)]],
     [url |-> [host |-> "down"]]}

PairRecords ==
    {[data |-> [name |-> Len(kitti_annotation), cameraConfig |-> cfg],
      result |-> <<[objects |-> objs]>>] :
        cfg \in PairConfigs,
        objs \in SeqUpTo(PairObjects,
                         MaxPairObjects - KittiCount(kitti_annotation))}

KittiPairsNext ==
    /\ Len(kitti_annotation) < MaxRecords
    /\ \E anno \in PairRecords : KittiRecord(anno)

----------------------------------------------------------------------------
(* importer/_parse_data.py: get_names and parse_xtreme1.  src is the list of
   the files of the source folder, a file's content the list of its results
   [objects]; a track name is str(n) or, as an integer in the JSON, PyInt(n). *)

PyInt(n) == [int |-> n]

\* list_files(src, '.json'): match is a string, so "ext in match" holds for
\* every extension that is a substring of '.json', the empty one included.
InDotJson == {"", ".", ".j", ".js", ".jso", ".json"}

\* The objects of a file, over its results.
file_objects(file) ==
    Flatten([k \in 1..Len(file.content) |-> file.content[k].objects])

\* jc['objects'] raises for a result without objects.
xtreme1_raises(src) ==
    \E f \in 1..Len(list_files(src, InDotJson)) :
        \E k \in 1..Len(list_files(src, InDotJson)[f].content) :
            ~HasKey(list_files(src, InDotJson)[f].content[k], "objects")

\* get_names(src_dir): the track names of all files, in order.
get_names(src) ==
    LET files == list_files(src, InDotJson)
        objs == Flatten([f \in 1..Len(files) |-> file_objects(files[f])])
        named == SelectSeq(objs, LAMBDA obj : HasKey(obj, "trackName"))
    IN  [i \in 1..Len(named) |-> named[i].trackName]

\* Mutant of next_name_num: the counter is used as it stands.
next_name_num_as_is(names, name_num) == name_num

\* while True: if str(name_num) not in names: break / else: name_num += 1
next_name_num(names, name_num) ==
    CHOOSE n \in name_num..(name_num + Len(names)) :
        /\ \A i \in 1..Len(names) : names[i] # Str(n)
        /\ \A m \in name_num..(n - 1) :
              \E i \in 1..Len(names) : names[i] = Str(m)

\* The body of "for obj in jc['objects']"; st is [names, name_num, ids,
\* objects], ids the results of generate(size=16) still to come.
xtreme1_object(obj, st) ==
    LET unnamed == ~HasKey(obj, "trackName")
        n == next_name_num(st.names, st.name_num)
        no_id == ~HasKey(obj, "trackId")
        o1 == IF unnamed THEN ("trackName" :> Str(n)) @@ obj ELSE obj
        o2 == IF no_id THEN ("trackId" :> st.ids[1]) @@ o1 ELSE o1
        o3 == IF /\ ~HasKey(obj, "className")
                 /\ HasKey(obj, "modelClass")
                 /\ obj.modelClass # ""
              THEN ("className" :> obj.modelClass) @@ o2 ELSE o2
    IN  [names |-> IF unnamed THEN Append(st.names, Str(n)) ELSE st.names,
         name_num |-> IF unnamed THEN n ELSE st.name_num,
         ids |-> IF no_id THEN Tail(st.ids) ELSE st.ids,
         objects |-> Append(st.objects, o3)]

RECURSIVE xtreme1_objects(_, _)
xtreme1_objects(objs, st) ==
    IF objs = <<>> THEN st
    ELSE xtreme1_objects(Tail(objs), xtreme1_object(objs[1], st))

\* The loop over the files: <stem>.json is written for each; dst maps a
\* stem to the document.
RECURSIVE xtreme1_files(_, _, _)
xtreme1_files(files, st, dst) ==
    IF files = <<>> THEN dst
    ELSE LET s1 == xtreme1_objects(file_objects(files[1]),
                                   [st EXCEPT !.objects = <<>>])
             f_json == [sourceType |-> "EXTERNAL_GROUND_TRUTH",
                        objects |-> s1.objects]
             stem == files[1].name.stem
         IN  xtreme1_files(Tail(files), s1,
                           [x \in (DOMAIN dst) \cup {stem} |->
                               IF x = stem THEN f_json ELSE dst[x]])

\* parse_xtreme1(src, dst): [raised, error, dst].
parse_xtreme1(src, ids) ==
    IF xtreme1_raises(src)
    THEN [raised |-> TRUE, error |-> "", dst |-> <<>>]
    ELSE [raised |-> FALSE, error |-> "",
          dst |-> xtreme1_files(list_files(src, InDotJson),
                                [names |-> get_names(src), name_num |-> 1,
                                 ids |-> ids, objects |-> <<>>],
                                <<>>)]

\* The objects of the files read that have no trackId.
WithoutId(src) ==
    LET files == list_files(src, InDotJson)
    IN  SelectSeq(Flatten([f \in 1..Len(files) |-> file_objects(files[f])]),
                  LAMBDA obj : ~HasKey(obj, "trackId"))

\* Parser(source_path).parser('xtreme1', output)
ParseXtreme1 ==
    /\ fn_out = <<>>
    /\ \E ids \in FreshIds(IF xtreme1_raises(fn_in) THEN 0
                             ELSE Len(WithoutId(fn_in))) :
          fn_out' = <<parse_xtreme1(fn_in, ids)>>
    /\ UNCHANGED fn_in
    /\ UNCHANGED notFn

(* Source folders: a.json and a second file b.json, b without extension or
   b.txt, holding at most MaxXtremeObjects objects together. *)
MaxXtremeObjects == 3

XtremeObjects ==
    {[type |-> "RECTANGLE"],
     [type |-> "RECTANGLE", trackName |-> Str(1), trackId |-> "s1",
      className |-> "car"],
     [type |-> "RECTANGLE", trackName |-> Str(2), modelClass |-> "van"],
     [type |-> "RECTANGLE", trackName |-> PyInt(1), className |-> "car",
      modelClass |-> "van"],
     [type |-> "RECTANGLE", modelClass |-> ""],
     [type |-> "RECTANGLE", trackId |-> "s2", modelClass |-> "van"]}

XtremeContents(room) ==
    {<<[objects |-> objs]>> : objs \in SeqUpTo(XtremeObjects, room)}
    \cup {<<[objects |-> <<o1>>], [objects |-> <<o2>>]>> :
            o1 \in (IF room >= 2 THEN XtremeObjects ELSE {}),
            o2 \in XtremeObjects}
    \cup {<<[dataId |-> 1]>>}

XtremeSources ==
    {<<[name |-> [stem |-> "a", ext |-> ".json"], content |-> c]>> :
        c \in XtremeContents(MaxXtremeObjects)}
    \cup
    {<<[name |-> [stem |-> "a", ext |-> ".json"], content |-> c1],
       [name |-> [stem |-> "b", ext |-> x], content |-> c2]>> :
        x \in {".json", "", ".txt"},
        c1 \in XtremeContents(MaxXtremeObjects - 1),
        c2 \in XtremeContents(1)}

----------------------------------------------------------------------------
(* A whole export pass as a function of the records and of the output
   folder it finds, so that a pass can be run again on the folder an earlier
   pass left.  A pass that raises leaves the folder as it is at that
   point. *)

\* _to_kitti(annotation, export_folder): label files, opened with 'a+'.
RECURSIVE to_kitti(_, _)
to_kitti(annos, folder) ==
    IF annos = <<>> THEN folder
    ELSE LET anno == annos[1]
             anno_objects == anno_objects_of(anno)
             config_url == anno.data.cameraConfig.url
         IN  IF anno_objects = <<>> THEN to_kitti(Tail(annos), folder)
             ELSE IF ~HasKey(config_url, "serves") THEN folder
             ELSE LET obj_rect == obj_rect_of(anno_objects)
                      rects == [i \in 1..Len(obj_rect) |-> obj_rect[i].value]
                      r == kitti_lines(rects, obj_3d_of(anno_objects),
                                       config_url.serves, anno.data.name,
                                       folder)
                  IN  IF r.raised THEN r.folder
                      ELSE to_kitti(Tail(annos), r.folder)

\* _to_voc(annotation, export_folder): <name>.xml, opened with 'wb+'.
RECURSIVE to_voc(_, _, _)
to_voc(annos, warnings, folder) ==
    IF annos = <<>> THEN folder
    ELSE LET anno == annos[1] IN
         IF voc_record_raises(anno) THEN folder
         ELSE IF anno.result = <<>>
         THEN to_voc(Tail(annos), warnings, folder)
         ELSE IF ~HasKey(anno.result[1], "objects") THEN folder
         ELSE LET st == voc_objects(anno.result[1].objects, 1,
                                    [objects |-> <<>>, warnings |-> warnings,
                                     raised |-> FALSE])
                  xml_file == [stem |-> anno.data.name, ext |-> ".xml"]
              IN  IF st.raised THEN folder
                  ELSE to_voc(Tail(annos), st.warnings,
                              DictOf(<<[key |-> xml_file,
                                        value |-> voc_document(anno,
                                                               st.objects)]>>,
                                     folder))

\* _to_labelme(annotation, export_folder): <name>.json, opened with 'w'.
RECURSIVE to_labelme(_, _)
to_labelme(annos, folder) ==
    IF annos = <<>> THEN folder
    ELSE LET anno == annos[1] IN
         IF labelme_record_raises(anno) THEN folder
         ELSE IF anno.result = <<>> THEN to_labelme(Tail(annos), folder)
         ELSE IF ~HasKey(anno.result[1], "objects") THEN folder
         ELSE LET st == labelme_objects(anno.result[1].objects, 1,
                                        [annotations |-> <<>>,
                                         raised |-> FALSE])
                  json_file == [stem |-> anno.data.name, ext |-> ".json"]
              IN  IF st.raised THEN folder
                  ELSE to_labelme(Tail(annos),
                                  DictOf(<<[key |-> json_file,
                                            value |-> labelme_document(
                                                          anno,
                                                          st.annotations)]>>,
                                         folder))

\* _to_json(annotation, export_folder): <name>.json holding the result,
\* opened with 'w'; None + '.json' raises for a data without name.
RECURSIVE to_json(_, _)
to_json(annos, folder) ==
    IF annos = <<>> THEN folder
    ELSE LET anno == annos[1] IN
         IF ~HasKey(anno.data, "name") THEN folder
         ELSE to_json(Tail(annos),
                      DictOf(<<[key |-> [stem |-> anno.data.name,
                                         ext |-> ".json"],
                                value |-> anno.result]>>, folder))

\* The loop of _to_coco over the records: [raised, images, st].
RECURSIVE coco_pass(_, _, _, _)
coco_pass(annos, imgs, iid, st) ==
    IF annos = <<>> THEN [raised |-> FALSE, images |-> imgs, st |-> st]
    ELSE LET anno == annos[1] IN
         IF coco_record_raises(anno)
         THEN [raised |-> TRUE, images |-> imgs, st |-> st]
         ELSE IF coco_skips(anno) THEN coco_pass(Tail(annos), imgs, iid, st)
         ELSE LET s1 == coco_objects(anno.result[1].objects, 1, iid, st)
              IN  IF s1.raised
                  THEN [raised |-> TRUE, images |-> imgs, st |-> s1]
                  ELSE coco_pass(Tail(annos),
                                 Append(imgs, coco_image(anno, iid)),
                                 iid + 1, s1)

\* info of the COCO document: date_created is datetime.utcnow() to the
\* second and year its year; now counts seconds, two of them to a year.
coco_info(now) == [date_created |-> now, year |-> now \div 2]

\* _to_coco(annotation, dataset_name, export_folder): the one document,
\* opened with 'w'; the folder is <<>> or <<document>>.
to_coco(annos, folder, now) ==
    LET r == coco_pass(annos, <<>>, 0,
                       [annotations |-> <<>>, categorys |-> <<>>,
                        category_mapping |-> <<>>, object_id |-> 0,
                        category_id |-> 1, raised |-> FALSE])
    IN  IF r.raised THEN folder
        ELSE <<[info |-> coco_info(now), licenses |-> <<>>,
                images |-> r.images, annotations |-> r.st.annotations,
                categories |-> r.st.categorys]>>

\* Result.to_<format>(export_folder) on the folder an earlier pass left.
to_format(format, annos, folder, now) ==
    CASE format = "kitti" -> to_kitti(annos, folder)
      [] format = "voc" -> to_voc(annos, <<>>, folder)
      [] format = "labelme" -> to_labelme(annos, folder)
      [] format = "json" -> to_json(annos, folder)
      [] format = "coco" -> to_coco(annos, folder, now)

(* The same records are exported at most MaxRuns times into one folder;
   fn_in is [format, annotation], fn_out the folder after each pass.  The
   clock read by a COCO pass shows the second of the pass before or the
   next. *)
MaxRuns == 3
MaxRunRecords == 2

RunClock ==
    IF fn_in.format = "coco" /\ fn_out # <<>> /\ fn_out[Len(fn_out)] # <<>>
    THEN LET t == fn_out[Len(fn_out)][1].info.date_created IN {t, t + 1}
    ELSE {0}

ExportRun ==
    /\ Len(fn_out) < MaxRuns
    /\ \E now \in RunClock :
          fn_out' = Append(fn_out,
                           to_format(fn_in.format, fn_in.annotation,
                                     IF fn_out = <<>> THEN <<>>
                                     ELSE fn_out[Len(fn_out)], now))
    /\ UNCHANGED fn_in
    /\ UNCHANGED notFn

RunImageRecords ==
    [data : ImageDatas,
     result : {<<>>} \cup
              {<<[dataId |-> 1, objects |-> <<obj>>]>> :
                  obj \in {x \in ImageObjectDomain :
                              x.className \in {"dog", "cat"}}}]

RunKittiRecords ==
    {[data |-> [name |-> 0, cameraConfig |-> cfg], result |-> res] :
        cfg \in KittiConfigs, res \in KittiResults(1)}

RunCocoRecords == [data : CocoDatas, result : CocoResults(1)]

ExportJobs ==
    {[format |-> f, annotation |-> a] :
        f \in {"voc", "labelme", "json"},
        a \in SeqUpTo(RunImageRecords, MaxRunRecords)}
    \cup {[format |-> "kitti", annotation |-> a] :
            a \in SeqUpTo(RunKittiRecords, MaxRunRecords)}
    \cup {[format |-> "coco", annotation |-> a] :
            a \in SeqUpTo(RunCocoRecords, MaxRunRecords)}

----------------------------------------------------------------------------
(* Specifications: one per component, the other components idle *)

InitCoco ==
    CocoInit /\ ReconIdle /\ ParseIdle /\ KittiIdle /\ LabelIdle /\ FnIdle
    /\ VocIdle /\ LabelmeIdle /\ CtlIdle

SpecCoco == InitCoco /\ [][CocoNext]_vars

InitRecon ==
    ReconInit /\ CocoIdle /\ ParseIdle /\ KittiIdle /\ LabelIdle /\ FnIdle
    /\ VocIdle /\ LabelmeIdle /\ CtlIdle

SpecRecon == InitRecon /\ [][ReconNext]_vars

InitAlpha ==
    /\ fn_in \in AlphaArgs
    /\ fn_out = <<>>
    /\ CocoIdle /\ ReconIdle /\ ParseIdle /\ KittiIdle /\ LabelIdle
    /\ VocIdle /\ LabelmeIdle /\ CtlIdle

SpecAlpha == InitAlpha /\ [][AlphaInPi]_vars

InitArea ==
    /\ fn_in \in SeqUpTo(PolyPoints, MaxPolygon)
    /\ fn_out = <<>>
    /\ CocoIdle /\ ReconIdle /\ ParseIdle /\ KittiIdle /\ LabelIdle
    /\ VocIdle /\ LabelmeIdle /\ CtlIdle

SpecArea == InitArea /\ [][PolygonArea]_vars

(* Rectangles exported to COCO and imported again: one record with one
   RECTANGLE of at most MaxCorners points. *)
MaxCorners == 3

RectPoints == [x : {0, 3, 4, 10}, y : {0, 6}]

RectObjects ==
    {[className |-> "car", type |-> "RECTANGLE",
      contour |-> [points |-> pts], classValues |-> <<>>] :
        pts \in SeqUpTo(RectPoints, MaxCorners)}

RoundTripNext ==
    \/ /\ annotation = <<>>
       /\ \E data \in CocoDatas, obj \in RectObjects :
            CocoRecord([data |-> data,
                        result |-> <<[dataId |-> data.dataId,
                                      objects |-> <<obj>>]>>])
    \/ CocoWrite
    \/ StageExport
    \/ ParseCoco

InitRoundTrip ==
    CocoInit /\ ReconIdle /\ ParseInit /\ KittiIdle /\ LabelIdle /\ FnIdle
    /\ VocIdle /\ LabelmeIdle /\ CtlIdle

SpecCocoRoundTrip == InitRoundTrip /\ [][RoundTripNext]_vars

(* Polygons and polylines exported to COCO and imported again: one record
   with one object of at most MaxCorners points. *)
ShapeObjects ==
    {[className |-> "car", type |-> t,
      contour |-> [points |-> pts], classValues |-> <<>>] :
        t \in {"POLYGON", "POLYLINE"},
        pts \in SeqUpTo(RectPoints, MaxCorners)}

ShapeRoundTripNext ==
    \/ /\ annotation = <<>>
       /\ \E data \in CocoDatas, obj \in ShapeObjects :
            CocoRecord([data |-> data,
                        result |-> <<[dataId |-> data.dataId,
                                      objects |-> <<obj>>]>>])
    \/ CocoWrite
    \/ StageExport
    \/ ParseCoco

SpecShapeRoundTrip == InitRoundTrip /\ [][ShapeRoundTripNext]_vars

SpecParseCoco == InitRoundTrip /\ [][ParseCocoNext]_vars

InitLabel ==
    LabelInit /\ CocoIdle /\ ReconIdle /\ ParseIdle /\ KittiIdle /\ FnIdle
    /\ VocIdle /\ LabelmeIdle /\ CtlIdle

SpecLabel == InitLabel /\ [][LabelNext]_vars

InitKittiLike ==
    KittiInit /\ CocoIdle /\ ReconIdle /\ ParseIdle /\ LabelIdle /\ FnIdle
    /\ VocIdle /\ LabelmeIdle /\ CtlIdle

SpecKittiLike == InitKittiLike /\ [][KittiLikeNext]_vars

InitKittiRoundTrip ==
    KittiInit /\ CocoIdle /\ ReconIdle /\ ParseIdle /\ LabelIdle /\ FnIdle
    /\ VocIdle /\ LabelmeIdle /\ CtlIdle

SpecKittiRoundTrip == InitKittiRoundTrip /\ [][KittiRoundTripNext]_vars

InitGetLabel ==
    /\ fn_in \in LabelObjects
    /\ fn_out = <<>>
    /\ CocoIdle /\ ReconIdle /\ ParseIdle /\ KittiIdle /\ LabelIdle
    /\ VocIdle /\ LabelmeIdle /\ CtlIdle

SpecGetLabel == InitGetLabel /\ [][GetLabel]_vars

InitCtl ==
    /\ ctl_args \in CtlArgs
    /\ ctl_outcome = <<>>
    /\ ctl_stdout = <<>>
    /\ ctl_response = <<>>
    /\ ctl_pc = "start"
    /\ CocoIdle /\ ReconIdle /\ ParseIdle /\ KittiIdle /\ LabelIdle
    /\ VocIdle /\ LabelmeIdle /\ FnIdle

SpecCtl == InitCtl /\ [][CtlNext]_vars

InitHeadTail ==
    /\ fn_in \in HeadTailArgs
    /\ fn_out = <<>>
    /\ CocoIdle /\ ReconIdle /\ ParseIdle /\ KittiIdle /\ LabelIdle
    /\ VocIdle /\ LabelmeIdle /\ CtlIdle

SpecHeadTail == InitHeadTail /\ [][HeadTailNext]_vars

InitGenAlpha ==
    /\ fn_in \in GenAlphaArgs
    /\ fn_out = <<>>
    /\ CocoIdle /\ ReconIdle /\ ParseIdle /\ KittiIdle /\ LabelIdle
    /\ VocIdle /\ LabelmeIdle /\ CtlIdle

SpecGenAlpha == InitGenAlpha /\ [][GenAlpha]_vars

InitKittiAttrs ==
    /\ fn_in \in AttrRects
    /\ fn_out = <<>>
    /\ CocoIdle /\ ReconIdle /\ ParseIdle /\ KittiIdle /\ LabelIdle
    /\ VocIdle /\ LabelmeIdle /\ CtlIdle

SpecKittiAttrs == InitKittiAttrs /\ [][KittiAttrs]_vars

InitRerun ==
    /\ fn_in \in ExportJobs
    /\ fn_out = <<>>
    /\ CocoIdle /\ ReconIdle /\ ParseIdle /\ KittiIdle /\ LabelIdle
    /\ VocIdle /\ LabelmeIdle /\ CtlIdle

SpecRerun == InitRerun /\ [][ExportRun]_vars

InitXtreme1 ==
    /\ fn_in \in XtremeSources
    /\ fn_out = <<>>
    /\ CocoIdle /\ ReconIdle /\ ParseIdle /\ KittiIdle /\ LabelIdle
    /\ VocIdle /\ LabelmeIdle /\ CtlIdle

SpecXtreme1 == InitXtreme1 /\ [][ParseXtreme1]_vars

InitVoc ==
    VocInit /\ CocoIdle /\ ReconIdle /\ ParseIdle /\ KittiIdle /\ LabelIdle
    /\ LabelmeIdle /\ CtlIdle /\ FnIdle

SpecVoc == InitVoc /\ [][VocNext]_vars

InitLabelme ==
    LabelmeInit /\ CocoIdle /\ ReconIdle /\ ParseIdle /\ KittiIdle
    /\ LabelIdle /\ VocIdle /\ CtlIdle /\ FnIdle

SpecLabelme == InitLabelme /\ [][LabelmeNext]_vars

InitKitti ==
    KittiInit /\ CocoIdle /\ ReconIdle /\ ParseIdle /\ LabelIdle /\ FnIdle
    /\ VocIdle /\ LabelmeIdle /\ CtlIdle

SpecKitti == InitKitti /\ [][KittiNext]_vars

SpecKittiPairs == InitKitti /\ [][KittiPairsNext]_vars

(* One pass of one of the exporters that write a file per record or per
   rect: _to_voc, _to_labelme or _to_kitti. *)
FileExportNext ==
    \/ /\ labelme_annotation = <<>> /\ kitti_annotation = <<>>
       /\ VocNext
    \/ /\ voc_annotation = <<>> /\ kitti_annotation = <<>>
       /\ LabelmeNext
    \/ /\ voc_annotation = <<>> /\ labelme_annotation = <<>>
       /\ KittiNext

InitFileExport ==
    VocInit /\ LabelmeInit /\ KittiInit /\ CocoIdle /\ ReconIdle
    /\ ParseIdle /\ LabelIdle /\ CtlIdle /\ FnIdle

SpecFileExport == InitFileExport /\ [][FileExportNext]_vars

(* One pass of one of the exporters whose loop body is a try block that
   raises ConverterException: _to_coco or _to_labelme. *)
TryExportNext ==
    \/ /\ labelme_annotation = <<>>
       /\ CocoNext
    \/ /\ annotation = <<>> /\ coco_pc = "loop"
       /\ LabelmeNext

InitTryExport ==
    CocoInit /\ LabelmeInit /\ ReconIdle /\ ParseIdle /\ KittiIdle
    /\ LabelIdle /\ VocIdle /\ CtlIdle /\ FnIdle

SpecTryExport == InitTryExport /\ [][TryExportNext]_vars


----------------------------------------------------------------------------
(* Claims about _to_coco *)

\* C1: after a completed pass the number of entries of images[] equals the
\* number of input records, a record with an empty result included.
C1_ImagePerRecord ==
    coco_pc = "done" => Len(coco_file[1].images) = Len(annotation)

\* The labels the pass has visited, in visiting order: record order, then
\* object order within a record (records with an empty result hold none).
RECURSIVE VisitedLabels(_)
VisitedLabels(annos) ==
    IF annos = <<>> THEN <<>>
    ELSE (IF annos[1].result = <<>> THEN <<>>
          ELSE LET objs == annos[1].result[1].objects
               IN  [i \in 1..Len(objs) |-> get_label(objs[i])])
         \o VisitedLabels(Tail(annos))

FirstIndex(labels, l) ==
    CHOOSE i \in 1..Len(labels) :
        labels[i] = l /\ \A k \in 1..(i - 1) : labels[k] # l

\* C2: the category table lists the distinct labels in first-seen order, the
\* k-th of them with id k, no label twice, and category_mapping is the same
\* table; so the table is a function of the visited labels alone, and two
\* passes over the same input build the same table.
C2_CategoryTableFirstSeen ==
    coco_pc # "raised" =>
        LET labels == VisitedLabels(annotation)
            n == Len(categorys)
            table == IF coco_pc = "done" THEN coco_file[1].categories
                     ELSE categorys
        IN  /\ table = categorys
            /\ {categorys[k].name : k \in 1..n}
                  = {labels[i] : i \in 1..Len(labels)}
            /\ DOMAIN category_mapping = {categorys[k].name : k \in 1..n}
            /\ category_id = n + 1
            /\ \A k \in 1..n :
                  /\ categorys[k].id = k
                  /\ category_mapping[categorys[k].name] = k
            /\ \A a, b \in 1..n :
                  a < b => /\ categorys[a].name # categorys[b].name
                           /\ FirstIndex(labels, categorys[a].name)
                                < FirstIndex(labels, categorys[b].name)

\* C2 witness: a finished pass that saw a label twice and two labels in an
\* order that is not the alphabetical one.
C2_Witness ==
    /\ coco_pc = "done"
    /\ Len(VisitedLabels(annotation)) > Len(categorys)
    /\ Len(categorys) >= 2
    /\ categorys[1].name = "dog"
    /\ categorys[2].name = "car"

----------------------------------------------------------------------------
(* Claims about Result.__reconstitution *)

DataEntries == SelectSeq(zip_file, LAMBDA e : is_data(e.name))

\* Some result entry of the archive carries this dataId (that of its first
\* shard, which is the dataId of the merged result).
HasResult(d) ==
    \E j \in 1..Len(zip_file) :
        /\ is_result(zip_file[j].name)
        /\ zip_file[j].content[1].dataId = d

\* C3: with dropna the output omits exactly the data entries that have no
\* result of the same dataId and keeps the others in order; without dropna
\* there is one output record per data entry.
C3_DropnaExact ==
    recon_pc = "ready" =>
        LET kept == SelectSeq(DataEntries,
                              LAMBDA e : HasResult(e.content.dataId))
        IN  IF dropna
            THEN /\ Len(self_annotation) = Len(kept)
                 /\ \A k \in 1..Len(kept) :
                       /\ self_annotation[k].data = kept[k].content
                       /\ self_annotation[k].result # <<>>
            ELSE Len(self_annotation) = Len(DataEntries)

\* C3 witness: a reconstitution with dropna that dropped one data entry and
\* kept another, whose result has no objects at all.
C3_Witness ==
    /\ recon_pc = "ready"
    /\ dropna
    /\ Len(self_annotation) = 1
    /\ Len(DataEntries) = 2
    /\ self_annotation[1].result[1].objects = <<>>

\* C4: a record's result is the merge of one result entry: its objects are
\* the shards' objects concatenated in shard order, every other field is the
\* first shard's.
C4_ShardsConcatenated ==
    recon_pc = "ready" =>
        \A k \in 1..Len(self_annotation) :
            self_annotation[k].result # <<>> =>
                LET r == self_annotation[k].result[1] IN
                \E j \in 1..Len(zip_file) :
                    LET c == zip_file[j].content IN
                    /\ is_result(zip_file[j].name)
                    /\ c[1].dataId = self_annotation[k].data.dataId
                    /\ r.objects =
                          Flatten([i \in 1..Len(c) |-> c[i].objects])
                    /\ DOMAIN r = DOMAIN c[1]
                    /\ \A f \in DOMAIN r \ {"objects"} : r[f] = c[1][f]

\* C4 witness: a record merged from two shards with different dataIds.
C4_Witness ==
    /\ recon_pc = "ready"
    /\ \E k \in 1..Len(self_annotation), j \in 1..Len(zip_file) :
          /\ is_result(zip_file[j].name)
          /\ Len(zip_file[j].content) = 2
          /\ zip_file[j].content[1] = [dataId |-> 2, objects |-> <<"b", "c">>]
          /\ zip_file[j].content[2] = [dataId |-> 1, objects |-> <<"a">>]
          /\ self_annotation[k].data.dataId = 2
          /\ self_annotation[k].result
                = <<[dataId |-> 2, objects |-> <<"b", "c", "a">>]>>

----------------------------------------------------------------------------
(* Claims about the geometry helpers *)

\* C5 as stated: the normalized angle lies in (-pi, pi] and normalizing it
\* again changes nothing.
C5_RangeOpenAtMinusPi ==
    Len(fn_out) = 2 =>
        /\ -PiUnits < fn_out[1] /\ fn_out[1] <= PiUnits
        /\ fn_out[2] = fn_out[1]

\* C5 amended: the normalized angle lies in [-pi, pi), differs from the
\* argument by a whole number of turns, and normalizing it again changes
\* nothing.
C5_RangeOpenAtPi ==
    /\ Len(fn_out) >= 1 =>
          /\ -PiUnits <= fn_out[1] /\ fn_out[1] < PiUnits
          /\ (fn_out[1] - fn_in) % (2 * PiUnits) = 0
    /\ Len(fn_out) = 2 => fn_out[2] = fn_out[1]

\* C5 witness: pi itself has been normalized twice, to -pi.
C5_Witness ==
    /\ fn_in = PiUnits
    /\ fn_out = <<-PiUnits, -PiUnits>>

\* C6: the area of the reversed point list equals the area of the list, and
\* is not negative.
C6_AreaOrientationFree ==
    Len(fn_out) = 2 => fn_out[1] = fn_out[2] /\ fn_out[1] >= 0

\* C6 witness: a polygon of three points with a positive area.
C6_Witness ==
    /\ Len(fn_out) = 2
    /\ Len(fn_in) = 3
    /\ fn_out[1] > 0

----------------------------------------------------------------------------
(* Claims about the COCO round trip *)

WholePixels(points) ==
    \A i \in 1..Len(points) :
        points[i].x % CoordScale = 0 /\ points[i].y % CoordScale = 0

\* C7: a RECTANGLE with whole-pixel corners, exported by _to_coco and read
\* back by parse_coco, is a RECTANGLE of the two points (min x, min y) and
\* (max x, max y) of the exported corners.
C7_RectangleRoundTrip ==
    (parse_pc = "done" /\ Len(annotations) = 1) =>
        LET pts == annotation[1].result[1].objects[1].contour.points
            xs == [i \in 1..Len(pts) |-> pts[i].x]
            ys == [i \in 1..Len(pts) |-> pts[i].y]
            stem == annotation[1].data.imageUrl.file.stem
        IN  WholePixels(pts) =>
              /\ parse_error = ""
              /\ stem \in DOMAIN parse_out.result
              /\ Len(parse_out.result[stem].objects) = 1
              /\ parse_out.result[stem].objects[1].type = "RECTANGLE"
              /\ parse_out.result[stem].objects[1].contour.points
                    = <<[x |-> SeqMin(xs), y |-> SeqMin(ys)],
                        [x |-> SeqMax(xs), y |-> SeqMax(ys)]>>

\* C7 witness: three whole-pixel corners, not in min/max order, read back.
C7_Witness ==
    /\ parse_pc = "done"
    /\ Len(annotations) = 1
    /\ annotation[1].result[1].objects[1].contour.points
          = <<[x |-> 10, y |-> 0], [x |-> 4, y |-> 6], [x |-> 0, y |-> 6]>>
    /\ DOMAIN parse_out.result # {}

----------------------------------------------------------------------------
(* Claims about the KITTI import *)

\* The lines of the label file that are neither DontCare nor Misc.
OtherLines ==
    SelectSeq(label_file, LAMBDA data : data[1] \notin {"DontCare", "Misc"})

\* C8: the objects written are a 3D_BOX and a 2D_RECT for each line that is
\* neither DontCare nor Misc, in line order and numbered 1, 2, ... over these
\* lines only; no object comes from a DontCare or Misc line.
C8_DroppedLabelsLeaveNoTrace ==
    label_pc = "done" =>
        LET objects == result_file[1].objects
        IN  /\ Len(objects) = 2 * Len(OtherLines)
            /\ \A i \in 1..Len(objects) :
                  objects[i].className \notin {"DontCare", "Misc"}
            /\ \A k \in 1..Len(OtherLines) :
                  /\ objects[2 * k - 1].type = "3D_BOX"
                  /\ objects[2 * k - 1].className = OtherLines[k][1]
                  /\ objects[2 * k - 1].trackName = Str(k)
                  /\ objects[2 * k - 1].contour.size3D.z = OtherLines[k][9]
                  /\ objects[2 * k].type = "2D_RECT"
                  /\ objects[2 * k].className = OtherLines[k][1]
                  /\ objects[2 * k].trackName = k
                  /\ objects[2 * k].contour.points[1]
                        = [x |-> OtherLines[k][5], y |-> OtherLines[k][6]]

\* C8 witness: a file of a DontCare, a Misc and a Car line, imported: the
\* Car is track 1.
C8_Witness ==
    /\ label_pc = "done"
    /\ Len(label_file) = 3
    /\ <<label_file[1][1], label_file[2][1], label_file[3][1]>>
          = <<"DontCare", "Misc", "Car">>
    /\ Len(result_file[1].objects) = 2
    /\ result_file[1].objects[1].trackName = Str(1)

----------------------------------------------------------------------------
(* Claims about the KITTI exporters *)

IsPlaceholder(rect) ==
    rect.contour.points = <<[x |-> 0, y |-> 0], [x |-> 0, y |-> 0]>>

\* C9: after the completion pass of a record, the observed rects come first
\* and unchanged, every 3D_BOX track has a rect at every view 0..n_cams-1, and
\* the rects added are zero-size placeholders, one for each view of a 3D_BOX
\* track that had no observed rect, and no others.
C9_CompletionFillsMissingViews ==
    LET anno == kitti_annotation[Len(kitti_annotation)]
        objs == anno_objects_of(anno)
    IN  (/\ kitti_annotation # <<>>
         /\ objs # <<>>
         /\ HasKey(anno.data.cameraConfig.url, "url")) =>
          LET n_cams == Len(anno.data.cameraConfig.url.url.serves)
              observed == SelectSeq(objs, LAMBDA x : x.type = "2D_RECT")
              boxes == {j \in 1..Len(objs) : objs[j].type = "3D_BOX"}
              tracks == {objs[i].trackId : i \in boxes}
              Seen(t, v) == \E i \in 1..Len(observed) :
                               /\ observed[i].trackId = t
                               /\ observed[i].contour.viewIndex = v
              added == (Len(observed) + 1)..Len(kitti_rects)
          IN  /\ Len(kitti_rects) >= Len(observed)
              /\ SubSeq(kitti_rects, 1, Len(observed)) = observed
              /\ \A t \in tracks, v \in 0..(n_cams - 1) :
                    \E i \in 1..Len(kitti_rects) :
                       /\ kitti_rects[i].type = "2D_RECT"
                       /\ kitti_rects[i].trackId = t
                       /\ kitti_rects[i].contour.viewIndex = v
              /\ \A i \in added :
                    /\ IsPlaceholder(kitti_rects[i])
                    /\ kitti_rects[i].trackId \in tracks
                    /\ kitti_rects[i].contour.viewIndex \in 0..(n_cams - 1)
                    /\ ~Seen(kitti_rects[i].trackId,
                             kitti_rects[i].contour.viewIndex)
                    /\ \A j \in added :
                          (/\ kitti_rects[j].trackId = kitti_rects[i].trackId
                           /\ kitti_rects[j].contour.viewIndex
                                 = kitti_rects[i].contour.viewIndex) => j = i

\* C9 witness: a record of three cameras whose only track is observed in view
\* 1 alone ends with three rects, the placeholders of views 0 and 2 added.
C9_Witness ==
    /\ Len(kitti_annotation) = 1
    /\ HasKey(kitti_annotation[1].data.cameraConfig.url, "url")
    /\ Len(kitti_annotation[1].data.cameraConfig.url.url.serves) = 3
    /\ Len(anno_objects_of(kitti_annotation[1])) = 2
    /\ anno_objects_of(kitti_annotation[1])[1].type = "3D_BOX"
    /\ anno_objects_of(kitti_annotation[1])[2]
          = KittiRect("t1", "Car", 1, <<[x |-> 1012345, y |-> 200000],
                                        [x |-> 300000, y |-> 40]>>)
    /\ Len(kitti_rects) = 3
    /\ kitti_rects[1] = anno_objects_of(kitti_annotation[1])[2]
    /\ IsPlaceholder(kitti_rects[2]) /\ kitti_rects[2].contour.viewIndex = 0
    /\ IsPlaceholder(kitti_rects[3]) /\ kitti_rects[3].contour.viewIndex = 2
    /\ kitti_rects[2].trackId = "t1" /\ kitti_rects[3].trackId = "t1"

----------------------------------------------------------------------------
(* Claims about the KITTI round trip *)

\* Equal up to the rounding of a label line to two decimals.
Near(a, b) == Abs(a - b) <= 100

\* Equal angles, up to whole turns and the rounding to two decimals.
NearTurn(a, b) == Near(alpha_in_pi(a - b), 0)

ExportedBox == anno_objects_of(kitti_annotation[1])[1].contour

ImportedBox == result_file[1].objects[1].contour

RoundTripDone ==
    /\ label_pc = "done"
    /\ kitti_annotation # <<>>
    /\ result_file # <<>>
    /\ Len(result_file[1].objects) = 2

CenterAndSizeReturn ==
    /\ result_file[1].objects[1].type = "3D_BOX"
    /\ Near(ImportedBox.center3D.x, ExportedBox.center3D.x)
    /\ Near(ImportedBox.center3D.y, ExportedBox.center3D.y)
    /\ Near(ImportedBox.center3D.z, ExportedBox.center3D.z)
    /\ Near(ImportedBox.size3D.x, ExportedBox.size3D.x)
    /\ Near(ImportedBox.size3D.y, ExportedBox.size3D.y)
    /\ Near(ImportedBox.size3D.z, ExportedBox.size3D.z)

----------------------------------------------------------------------------
(* Claims about failures of the exporters *)

\* C11: a conversion run is all-or-nothing: when a pass of _to_voc,
\* _to_labelme or _to_kitti has failed, the output folder holds no file of
\* that pass.
C11_AllOrNothing ==
    /\ voc_pc = "raised" => voc_folder = <<>>
    /\ labelme_pc = "raised" => labelme_folder = <<>>
    /\ kitti_pc = "raised" => DOMAIN kitti_folder = {}

\* An object whose processing raises in the loop body of the exporter: a
\* required field is missing or a rectangle has no point to take the
\* extrema of.
LacksField(obj) ==
    \/ ~HasKey(obj, "contour")
    \/ ~HasKey(obj.contour, "points")
    \/ ~HasKey(obj, "type")

CocoBreaks(obj) ==
    \/ LacksField(obj)
    \/ /\ obj.type \in RectTypes \cup {"POLYGON", "POLYLINE"}
       /\ ~HasKey(obj, "classValues")
    \/ obj.type \in RectTypes /\ obj.contour.points = <<>>

LabelmeBreaks(obj) ==
    \/ LacksField(obj)
    \/ ~HasKey(obj, "classValues")
    \/ obj.type = "RECTANGLE" /\ obj.contour.points = <<>>
    \/ obj.type \notin DOMAIN type_mapping

HasBroken(anno, Breaks(_)) ==
    /\ anno.result # <<>>
    /\ \E k \in 1..Len(anno.result[1].objects) :
          Breaks(anno.result[1].objects[k])

\* C12: in COCO and LabelMe export a record holding an object whose
\* processing raises ends the pass with ConverterException: it is the last
\* record the pass consumed, the pass never resumes, and the COCO document
\* is not written.
C12_ObjectFailureAborts ==
    /\ \A i \in 1..Len(annotation) :
          HasBroken(annotation[i], CocoBreaks)
          => i = Len(annotation) /\ coco_pc = "raised" /\ coco_file = <<>>
    /\ \A i \in 1..Len(labelme_annotation) :
          HasBroken(labelme_annotation[i], LabelmeBreaks)
          => i = Len(labelme_annotation) /\ labelme_pc = "raised"

\* An object of the second record raised after the first record went
\* through.
C12_Witness ==
    /\ Len(annotation) = 2
    /\ Len(images) = 1
    /\ ~HasBroken(annotation[1], CocoBreaks)
    /\ HasBroken(annotation[2], CocoBreaks)
    /\ coco_pc = "raised"

----------------------------------------------------------------------------
(* Claims about _get_label *)

\* C13: the label of an object is never empty: it is the className when that
\* is set and non-empty, else the modelClass when that is set and non-empty,
\* else "null".
C13_LabelFallsBack ==
    fn_out # <<>> =>
        /\ fn_out[1] # ""
        /\ fn_out[1] =
              IF HasKey(fn_in, "className") /\ fn_in.className # ""
              THEN fn_in.className
              ELSE IF HasKey(fn_in, "modelClass") /\ fn_in.modelClass # ""
              THEN fn_in.modelClass
              ELSE "null"

----------------------------------------------------------------------------
(* Claims about script_ctl.main *)

\* What a finished run has emitted: the printed dict or the response file.
Emitted == IF ctl_responds(ctl_args) THEN ctl_response ELSE ctl_stdout

\* The conversion or parse completed without failure: it returned, and
\* returned no error message, error list or exception object.
Completed(outcome) ==
    outcome.kind = "returns" /\ outcome.value = PyStr("")

\* C14: every run of main emits a structured result {code, message}, with
\* code OK exactly when the operation completed without failure and ERROR
\* otherwise.
C14_StructuredResult ==
    ctl_pc # "start" =>
        /\ Emitted # <<>>
        /\ DOMAIN Emitted[1] = {"code", "message"}
        /\ Emitted[1].code =
              IF Completed(ctl_outcome) THEN "OK" ELSE "ERROR"

----------------------------------------------------------------------------
(* Claims about Result.head and Result.tail *)

FirstRecords(s, count) == SubSeq(s, 1, IF count < Len(s) THEN count ELSE Len(s))

LastRecords(s, count) ==
    SubSeq(s, IF count < Len(s) THEN Len(s) - count + 1 ELSE 1, Len(s))

\* C15: for a count >= 0, head(count) is the first count records of the
\* annotation list and tail(count) the last count records.
C15_TailIsLast ==
    fn_in.count >= 0 =>
        /\ HasKey(fn_out, "head")
           => fn_out.head = FirstRecords(fn_in.annotation, fn_in.count)
        /\ HasKey(fn_out, "tail")
           => fn_out.tail = LastRecords(fn_in.annotation, fn_in.count)

----------------------------------------------------------------------------
(* Claims about tool types an exporter does not support *)

ObjectsOf(anno) ==
    IF anno.result = <<>> THEN <<>> ELSE anno.result[1].objects

\* A RECTANGLE / BOUNDING_BOX object _to_voc can take the extrema of.
VocSupported(obj) == HasKey(obj, "type") /\ obj.type \in RectTypes

VocSound(obj) ==
    /\ HasKey(obj, "type")
    /\ obj.type \in RectTypes
       => /\ HasKey(obj, "contour") /\ HasKey(obj.contour, "points")
          /\ obj.contour.points # <<>>
          /\ HasKey(obj, "classValues")

\* The tool types of the objects _to_voc does not support, over all records.
RECURSIVE UnsupportedTypes(_)
UnsupportedTypes(annos) ==
    IF annos = <<>> THEN <<>>
    ELSE LET unsupported == SelectSeq(ObjectsOf(annos[1]),
                                      LAMBDA o : ~VocSupported(o))
         IN  [k \in 1..Len(unsupported) |-> unsupported[k].type]
             \o UnsupportedTypes(Tail(annos))

\* C16: in VOC export an object whose tool type is not RECTANGLE or
\* BOUNDING_BOX is skipped with a warning: a record whose data and whose
\* rectangles are sound does not fail, its XML document is written, and the
\* document holds one <object> per RECTANGLE/BOUNDING_BOX object, in order.
C16_UnsupportedWarnedAndSkipped ==
    voc_annotation # <<>> =>
        LET anno == voc_annotation[Len(voc_annotation)]
            objects == ObjectsOf(anno)
            supported == SelectSeq(objects, VocSupported)
            xml_file == [stem |-> anno.data.name, ext |-> ".xml"]
        IN  (/\ ~voc_record_raises(anno)
             /\ anno.result # <<>>
             /\ \A k \in 1..Len(objects) : VocSound(objects[k]))
            => /\ voc_pc = "loop"
               /\ DictHas(voc_folder, xml_file)
               /\ DictGet(voc_folder, xml_file).objects =
                     [k \in 1..Len(supported) |->
                        voc_element(supported[k], get_label(supported[k]))]
               /\ voc_warnings = UnsupportedTypes(voc_annotation)

\* The tool types _to_coco has a branch for.
CocoKnown(obj) ==
    HasKey(obj, "type")
    /\ obj.type \in RectTypes \cup {"POLYGON", "POLYLINE"}

\* C17: in COCO export an object of an unknown tool type is skipped rather
\* than raising: the record it is in leaves the annotations, the annotation
\* id counter and the image entries as the same record without that object
\* would.
C17_UnknownTypeAsIfAbsent ==
    [][(coco_pc = "loop" /\ Len(annotation') = Len(annotation) + 1) =>
        LET anno == annotation'[Len(annotation')]
            objects == ObjectsOf(anno)
            known == SelectSeq(objects, CocoKnown)
            st == coco_objects(known, 1, img_id, coco_state)
        IN  (/\ ~coco_record_raises(anno)
             /\ anno.result # <<>>
             /\ \A k \in 1..Len(objects) : HasKey(objects[k], "type"))
            => /\ (coco_pc' = "raised") = st.raised
               /\ annotations' = st.annotations
               /\ object_id' = st.object_id
               /\ images' = IF st.raised THEN images
                            ELSE Append(images, coco_image(anno, img_id))]_vars

\* An object _to_labelme can read the points, the tool type and the
\* attributes of.
LabelmeSound(obj) ==
    /\ HasKey(obj, "type")
    /\ HasKey(obj, "contour") /\ HasKey(obj.contour, "points")
    /\ obj.contour.points # <<>>
    /\ HasKey(obj, "classValues")

LabelmeMapped(obj) == obj.type \in DOMAIN type_mapping

\* C18: in LabelMe export an object whose tool type has no shape_type
\* mapping is skipped rather than raising: a record whose data and whose
\* objects are sound does not fail, and its document is written with one
\* shape per object of a mapped tool type, in order.
C18_UnmappedTypeSkipped ==
    labelme_annotation # <<>> =>
        LET anno == labelme_annotation[Len(labelme_annotation)]
            objects == ObjectsOf(anno)
            mapped == SelectSeq(objects, LabelmeMapped)
            json_file == [stem |-> anno.data.name, ext |-> ".json"]
        IN  (/\ ~labelme_record_raises(anno)
             /\ anno.result # <<>>
             /\ \A k \in 1..Len(objects) : LabelmeSound(objects[k]))
            => /\ labelme_pc = "loop"
               /\ DictHas(labelme_folder, json_file)
               /\ DictGet(labelme_folder, json_file).shapes =
                     [k \in 1..Len(mapped) |->
                        labelme_shape(mapped[k], type_mapping[mapped[k].type])]

----------------------------------------------------------------------------
(* Claims about the lines of _to_kitti *)

\* The rects _to_kitti processes for a record: obj_rect.values().
ProcessedRects(anno) ==
    LET obj_rect == obj_rect_of(anno_objects_of(anno))
    IN  [i \in 1..Len(obj_rect) |-> obj_rect[i].value]

\* A 3D_BOX of the record has the trackId of the rect.
Paired(anno, rect) ==
    \E k \in 1..Len(anno_objects_of(anno)) :
        /\ anno_objects_of(anno)[k].type = "3D_BOX"
        /\ anno_objects_of(anno)[k].trackId = rect.trackId

BboxExtrema(rect) ==
    LET pts == rect.contour.points
        xs == [i \in 1..Len(pts) |-> pts[i].x]
        ys == [i \in 1..Len(pts) |-> pts[i].y]
    IN  <<Fmt2(SeqMin(xs)), Fmt2(SeqMin(ys)),
          Fmt2(SeqMax(xs)), Fmt2(SeqMax(ys))>>

\* "DontCare -1 -1 -10 x1 y1 x2 y2 -1 -1 -1 -1000 -1000 -1000 -10"
DontCareLine(rect) ==
    <<"DontCare", -10000, -10000, -100000>> \o BboxExtrema(rect)
    \o <<-10000, -10000, -10000, -10000000, -10000000, -10000000, -100000>>

\* The line of a rect is the one the claim describes, a full line having
\* n fields.
LineAsClaimed(anno, rect, line, n) ==
    IF Paired(anno, rect)
    THEN /\ Len(line) = n
         /\ line[1] = rect.className
         /\ SubSeq(line, 5, 8) = BboxExtrema(rect)
    ELSE line = DontCareLine(rect)

\* The records whose rects have all been processed: every record but one
\* the pass failed in.  Each record has a file name of its own.
LinesAsClaimed(n) ==
    \A i \in 1..Len(kitti_annotation) :
        (i < Len(kitti_annotation) \/ kitti_pc = "loop") =>
            LET anno == kitti_annotation[i]
                rects == ProcessedRects(anno)
            IN  \A v \in 0..2 :
                    LET mine == SelectSeq(rects,
                                    LAMBDA r : r.contour.viewIndex = v)
                        path == <<v, anno.data.name>>
                    IN  IF mine = <<>> THEN path \notin DOMAIN kitti_folder
                        ELSE /\ path \in DOMAIN kitti_folder
                             /\ Len(kitti_folder[path]) = Len(mine)
                             /\ \A k \in 1..Len(mine) :
                                   LineAsClaimed(anno, mine[k],
                                                 kitti_folder[path][k], n)

\* C19 as stated: every processed 2D_RECT appends exactly one line to the
\* label file of its view index, a full 15-field line labelled with its
\* className when a 3D_BOX of the record has its trackId, else the DontCare
\* line of sentinels around the rect's bbox extrema.
C19_FullLineFifteenFields == LinesAsClaimed(15)

\* C19 amended: the same with a full line of 16 fields: the 15 KITTI fields
\* and the score.
C19_FullLineSixteenFields == LinesAsClaimed(16)

\* A paired rect has got its full line and the pass goes on.
C19_Witness ==
    /\ kitti_pc = "loop"
    /\ \E path \in DOMAIN kitti_folder :
          \E k \in 1..Len(kitti_folder[path]) :
              /\ kitti_folder[path][k][1] = "Car"
              /\ kitti_folder[path][k][16] = 10000

----------------------------------------------------------------------------
(* Claims about gen_alpha *)

\* C20: the observation angle alpha gen_alpha returns lies in (-pi, pi],
\* being normalize(ry - theta), and the ry it returns lies within [-pi, pi].
C20_AnglesInRange ==
    fn_out # <<>> =>
        /\ -PiUnits < fn_out[1].alpha /\ fn_out[1].alpha <= PiUnits
        /\ -PiUnits <= fn_out[1].ry /\ fn_out[1].ry <= PiUnits

----------------------------------------------------------------------------
(* Claims about truncated and occluded *)

\* The value of the attribute of that name, 0 when the rect has none or
\* one that cannot be evaluated; of several entries the last counts.
OwnAttr(rect, name) ==
    IF ~HasKey(rect, "classValues") THEN 0
    ELSE LET at == {i \in 1..Len(rect.classValues) :
                        rect.classValues[i].name = name}
         IN  IF at = {} THEN 0
             ELSE LET last == CHOOSE i \in at : \A k \in at : k <= i
                      value == rect.classValues[last].value
                  IN  IF HasKey(value, "eval") THEN value.eval ELSE 0

\* C21: truncated and occluded each come from the attribute of their own
\* name and default to 0 on their own: a value that can be read is emitted
\* also when the other attribute is absent or cannot be read.
C21_AttrsIndependent ==
    fn_out # <<>> =>
        /\ fn_out[1].truncated = OwnAttr(fn_in, "truncated")
        /\ fn_out[1].occluded = OwnAttr(fn_in, "occluded")

----------------------------------------------------------------------------
(* Claims about parse_coco *)

\* C22: what _to_coco emitted for a POLYGON or a POLYLINE is decoded by
\* parse_coco into an object of the same tool type with the same rounded
\* points, the annotation id as trackName and the label as className.
C22_ShapeRoundTrip ==
    (parse_pc \in {"done", "raised"} /\ Len(annotation) = 1) =>
        LET obj == annotation[1].result[1].objects[1]
            pts == obj.contour.points
            stem == annotation[1].data.imageUrl.file.stem
        IN  /\ parse_pc = "done"
            /\ parse_error = ""
            /\ stem \in DOMAIN parse_out.result
            /\ parse_out.result[stem].objects =
                  <<[type |-> obj.type,
                     trackName |-> Str(0),
                     className |-> obj.className,
                     contour |->
                        [points |->
                            [i \in 1..Len(pts) |->
                                [x |-> ToCoord(round(pts[i].x)),
                                 y |-> ToCoord(round(pts[i].y))]]]]>>

----------------------------------------------------------------------------
(* Claims about KittiDataset.parse_result, continued *)

\* C23: every kept label line yields one 3D_BOX followed at once by one
\* 2D_RECT of view 0; the two have the same trackId, a generated id; no
\* trackId is shared by objects of different lines; the objects of the n-th
\* kept line have track name n (the string on the box, the number on the
\* rect).
C23_LinePairs ==
    label_pc = "done" =>
        LET objects == result_file[1].objects
            n == Len(Kept(label_file))
        IN  /\ Len(objects) = 2 * n
            /\ \A k \in 1..n :
                  /\ objects[2 * k - 1].type = "3D_BOX"
                  /\ objects[2 * k].type = "2D_RECT"
                  /\ objects[2 * k].contour.viewIndex = 0
                  /\ objects[2 * k - 1].trackId \in NanoIds
                  /\ objects[2 * k].trackId = objects[2 * k - 1].trackId
                  /\ objects[2 * k - 1].trackName = Str(k)
                  /\ objects[2 * k].trackName = k
            /\ \A k, l \in 1..n :
                  k # l => objects[2 * k].trackId # objects[2 * l].trackId

\* C23 witness: a file with a dropped line between two kept lines, imported.
C23_Witness ==
    /\ label_pc = "done"
    /\ Len(label_file) = 3
    /\ ~is_dropped(label_file[1][1])
    /\ is_dropped(label_file[2][1])
    /\ ~is_dropped(label_file[3][1])
    /\ Len(result_file[1].objects) = 4
    /\ result_file[1].objects[3].trackName = Str(2)

----------------------------------------------------------------------------
(* Claims about parse_coco, continued *)

\* The archive has no .json file, several of them, a document in which
\* images, categories or annotations is absent or empty, or no image.
SourceRejected ==
    LET jsons == SelectSeq(coco_src, LAMBDA f : f.name.ext = ".json")
        imgs == SelectSeq(coco_src, LAMBDA f : f.name.ext \in ImageExts)
        doc == jsons[1].content
        Lacks(k) == ~HasKey(doc, k) \/ doc[k] = <<>>
    IN  \/ Len(jsons) # 1
        \/ Lacks("images") \/ Lacks("categories") \/ Lacks("annotations")
        \/ imgs = <<>>

----------------------------------------------------------------------------
(* Claims about _to_coco, continued *)

\* C25: the output document is written by the step that completes the pass
\* and by no other: a pass that raised has written no file, and a completed
\* pass has written one document, holding all images, annotations and
\* categories gathered.
C25_WrittenAtCompletion ==
    /\ [](coco_pc # "done" => coco_file = <<>>)
    /\ [](coco_pc = "done" =>
            coco_file = <<[images |-> images, annotations |-> annotations,
                           categories |-> categorys]>>)
    /\ [][coco_file' # coco_file =>
            (coco_pc = "loop" /\ coco_pc' = "done")]_vars

\* C25 witness: the pass raised at its second record, after the first had
\* given an image and an annotation; there is no file.
C25_Witness ==
    /\ coco_pc = "raised"
    /\ Len(annotation) = 2
    /\ Len(images) = 1
    /\ annotations # <<>>
    /\ coco_file = <<>>

\* The objects of a completed pass that have an annotation, in record and
\* object order, each with the url of its record and its label; n counts the
\* records with a result that came before.
RECURSIVE AnnotatedObjects(_, _)
AnnotatedObjects(annos, n) ==
    IF annos = <<>> THEN <<>>
    ELSE IF annos[1].result = <<>> THEN AnnotatedObjects(Tail(annos), n)
    ELSE LET known == SelectSeq(annos[1].result[1].objects, CocoKnown)
         IN  [k \in 1..Len(known) |->
                [nth |-> n, url |-> annos[1].data.imageUrl,
                 label |-> get_label(known[k])]]
             \o AnnotatedObjects(Tail(annos), n + 1)

\* C26: in the document of a completed pass the annotation ids are 0..A-1
\* and the image ids 0..I-1, in order; every annotation names by image_id
\* exactly one image, the one of the record its object came from, and by
\* category_id exactly one category, the one named by the object's label.
C26_ReferentialIntegrity ==
    coco_pc = "done" =>
        LET doc == coco_file[1]
            objs == AnnotatedObjects(annotation, 0)
        IN  /\ Len(doc.annotations) = Len(objs)
            /\ \A k \in 1..Len(doc.annotations) :
                  doc.annotations[k].id = k - 1
            /\ \A i \in 1..Len(doc.images) : doc.images[i].id = i - 1
            /\ \A k \in 1..Len(doc.annotations) :
                  LET a == doc.annotations[k]
                      imgs == {i \in 1..Len(doc.images) :
                                  doc.images[i].id = a.image_id}
                      cats == {c \in 1..Len(doc.categories) :
                                  doc.categories[c].id = a.category_id}
                  IN  /\ imgs = {objs[k].nth + 1}
                      /\ \A i \in imgs :
                            doc.images[i].xtreme1_url = objs[k].url
                      /\ Cardinality(cats) = 1
                      /\ \A c \in cats :
                            doc.categories[c].name = objs[k].label

\* C26 witness: a completed pass over a record without result and a record
\* with two annotated objects of different labels.
C26_Witness ==
    /\ coco_pc = "done"
    /\ Len(annotation) = 2
    /\ annotation[1].result = <<>>
    /\ Len(coco_file[1].images) = 1
    /\ Len(coco_file[1].annotations) = 2
    /\ coco_file[1].annotations[2].image_id = 0
    /\ coco_file[1].annotations[1].category_id
          # coco_file[1].annotations[2].category_id

----------------------------------------------------------------------------
(* Claims about Result.__reconstitution, continued *)

\* The result entries whose first shard has dataId d, in listing order.
ResultsOf(d) ==
    SelectSeq(zip_file,
              LAMBDA e : is_result(e.name) /\ e.content[1].dataId = d)

\* C27: the records are data entries, one each, in the listing order of the
\* data entries; a record's result is empty when no result entry has its
\* dataId, and else has that dataId and the objects of the last result entry
\* with that dataId alone (the entry's shards concatenated).
C27_PairedWithLastResult ==
    recon_pc = "ready" =>
        \E pos \in [1..Len(self_annotation) -> 1..Len(DataEntries)] :
            /\ \A k, l \in 1..Len(self_annotation) :
                  k < l => pos[k] < pos[l]
            /\ \A k \in 1..Len(self_annotation) :
                  LET rec == self_annotation[k]
                      from == ResultsOf(rec.data.dataId)
                  IN  /\ rec.data = DataEntries[pos[k]].content
                      /\ IF from = <<>> THEN rec.result = <<>>
                         ELSE LET last == from[Len(from)].content
                              IN  /\ Len(rec.result) = 1
                                  /\ rec.result[1].dataId = rec.data.dataId
                                  /\ rec.result[1].objects =
                                        Flatten([i \in 1..Len(last) |->
                                                    last[i].objects])

\* C27 witness: two result entries of one dataId with different objects and
\* a data entry of that dataId; the record holds the later entry's objects.
C27_Witness ==
    /\ recon_pc = "ready"
    /\ Len(self_annotation) = 1
    /\ Len(ResultsOf(self_annotation[1].data.dataId)) = 2
    /\ ResultsOf(self_annotation[1].data.dataId)[1].content[1].objects
          # self_annotation[1].result[1].objects

----------------------------------------------------------------------------
(* Claims about running an export again on the same output folder *)

\* k copies of a sequence, one after the other.
RECURSIVE Copies(_, _)
Copies(seq, k) == IF k = 0 THEN <<>> ELSE seq \o Copies(seq, k - 1)

\* After the k-th _to_kitti pass the label files are those of the first
\* pass, each holding k copies of the lines the first pass wrote.
KittiAppended(k) ==
    /\ DOMAIN fn_out[k] = DOMAIN fn_out[1]
    /\ \A path \in DOMAIN fn_out[k] :
          fn_out[k][path] = Copies(fn_out[1][path], k)

\* A COCO document without its info.
CocoBody(folder) ==
    [i \in 1..Len(folder) |->
        [licenses |-> folder[i].licenses, images |-> folder[i].images,
         annotations |-> folder[i].annotations,
         categories |-> folder[i].categories]]

----------------------------------------------------------------------------
(* Claims about parse_xtreme1 *)

\* The files parse_xtreme1 reads, and the places <<file, object>> of their
\* objects.
XtremeFiles == SelectSeq(fn_in, LAMBDA f : f.name.ext \in InDotJson)

XtremePlaces ==
    {pl \in (1..Len(XtremeFiles)) \X (1..MaxXtremeObjects) :
        pl[2] <= Len(file_objects(XtremeFiles[pl[1]]))}

SourceObject(pl) == file_objects(XtremeFiles[pl[1]])[pl[2]]

OutputObject(pl) ==
    fn_out[1].dst[XtremeFiles[pl[1]].name.stem].objects[pl[2]]

\* C29: after parse_xtreme1 every output object has a trackName and a
\* trackId; one the source object had is unchanged; a synthesized trackName
\* is str(n) of a counter n >= 1, unlike every trackName of every source
\* file and every other synthesized one; className is set to modelClass
\* when the source object has no className and a non-empty modelClass, and
\* is otherwise as in the source.
C29_TracksFilled ==
    (fn_out # <<>> /\ ~fn_out[1].raised) =>
        /\ \A f \in 1..Len(XtremeFiles) :
              /\ XtremeFiles[f].name.stem \in DOMAIN fn_out[1].dst
              /\ Len(fn_out[1].dst[XtremeFiles[f].name.stem].objects)
                    = Len(file_objects(XtremeFiles[f]))
        /\ \A pl \in XtremePlaces :
              LET a == SourceObject(pl)
                  b == OutputObject(pl)
              IN  /\ HasKey(b, "trackName") /\ HasKey(b, "trackId")
                  /\ HasKey(a, "trackName") => b.trackName = a.trackName
                  /\ HasKey(a, "trackId") => b.trackId = a.trackId
                  /\ ~HasKey(a, "trackName") =>
                        /\ \E n \in 1..(2 * MaxXtremeObjects + 2) :
                              b.trackName = Str(n)
                        /\ \A q \in XtremePlaces :
                              /\ HasKey(SourceObject(q), "trackName") =>
                                    SourceObject(q).trackName # b.trackName
                              /\ (q # pl /\ ~HasKey(SourceObject(q),
                                                     "trackName")) =>
                                    OutputObject(q).trackName # b.trackName
                  /\ IF /\ ~HasKey(a, "className")
                        /\ HasKey(a, "modelClass")
                        /\ a.modelClass # ""
                     THEN HasKey(b, "className")
                          /\ b.className = a.modelClass
                     ELSE /\ HasKey(b, "className") = HasKey(a, "className")
                          /\ HasKey(a, "className") =>
                                b.className = a.className

\* C29 witness: the first file has an unnamed object and the second file the
\* track name "1"; the unnamed object is named "2" or later.
C29_Witness ==
    /\ fn_out # <<>>
    /\ ~fn_out[1].raised
    /\ Len(XtremeFiles) = 2
    /\ Len(file_objects(XtremeFiles[1])) = 1
    /\ ~HasKey(SourceObject(<<1, 1>>), "trackName")
    /\ Len(file_objects(XtremeFiles[2])) = 1
    /\ HasKey(SourceObject(<<2, 1>>), "trackName")
    /\ SourceObject(<<2, 1>>).trackName = Str(1)
    /\ OutputObject(<<1, 1>>).trackName # Str(1)

----------------------------------------------------------------------------
(* Claims about _to_kitti, continued *)

\* The distinct members of a sequence, in the order they are first seen.
RECURSIVE FirstSeen(_)
FirstSeen(seq) ==
    IF seq = <<>> THEN <<>>
    ELSE LET before == FirstSeen(SubSeq(seq, 1, Len(seq) - 1))
         IN  IF \E i \in 1..Len(before) : before[i] = seq[Len(seq)]
             THEN before ELSE Append(before, seq[Len(seq)])

\* The 2D_RECTs of a record in view v, in object order.
RectsInView(anno, v) ==
    SelectSeq(anno_objects_of(anno),
              LAMBDA x : x.type = "2D_RECT" /\ x.contour.viewIndex = v)

\* The last 2D_RECT of track t among them.
LastOfTrack(rects, t) ==
    LET mine == SelectSeq(rects, LAMBDA x : x.trackId = t)
    IN  mine[Len(mine)]

\* C30: for every record _to_kitti has processed and every view, the label
\* file holds one line for each distinct trackId among the 2D_RECTs of that
\* view, made from the last 2D_RECT of that trackId and view (a 3D_BOX adds
\* no line), and there is no file when the view has no 2D_RECT; a record
\* without objects never makes the pass raise, whatever its calibration url.
C30_LinePerPair ==
    /\ \A i \in 1..Len(kitti_annotation) :
          (i < Len(kitti_annotation) \/ kitti_pc = "loop") =>
              LET anno == kitti_annotation[i] IN
              \A v \in 0..2 :
                  LET rects == RectsInView(anno, v)
                      tracks == FirstSeen([k \in 1..Len(rects) |->
                                              rects[k].trackId])
                      path == <<v, anno.data.name>>
                  IN  IF rects = <<>> THEN path \notin DOMAIN kitti_folder
                      ELSE /\ path \in DOMAIN kitti_folder
                           /\ Len(kitti_folder[path]) = Len(tracks)
                           /\ \A k \in 1..Len(tracks) :
                                 LineAsClaimed(anno,
                                               LastOfTrack(rects, tracks[k]),
                                               kitti_folder[path][k], 16)
    /\ kitti_pc = "raised" =>
          anno_objects_of(kitti_annotation[Len(kitti_annotation)]) # <<>>

\* C30 witness: a record holding the box of t1 and two different rects of t1
\* in view 0 has given one line, that of the second rect.
C30_Witness ==
    /\ kitti_pc = "loop"
    /\ Len(kitti_annotation) = 1
    /\ Len(anno_objects_of(kitti_annotation[1])) = 3
    /\ anno_objects_of(kitti_annotation[1])[1].type = "3D_BOX"
    /\ anno_objects_of(kitti_annotation[1])[2].type = "2D_RECT"
    /\ anno_objects_of(kitti_annotation[1])[2].className = "Car"
    /\ anno_objects_of(kitti_annotation[1])[2].contour.viewIndex = 0
    /\ anno_objects_of(kitti_annotation[1])[3].className = "Tram"
    /\ DOMAIN kitti_folder = {<<0, 0>>}
    /\ Len(kitti_folder[<<0, 0>>]) = 1
    /\ kitti_folder[<<0, 0>>][1][1] = "Tram"

====
